---------------------------- MODULE Spec2Model ----------------------------
(***************************************************************************)
(* A model of the OpenRouter gateway core: the credential store and its    *)
(* selector (OpenRouterKeyProvider), the key checker's probe               *)
(* (OpenRouterKeyChecker), and the request pipeline that resolves a model  *)
(* name before a credential is selected.                                   *)
(*                                                                         *)
(* Strings the code inspects (model ids) are sequences of one-character    *)
(* strings, so that endsWith/startsWith/includes/split are computed.       *)
(* Times are milliseconds.                                                 *)
(***************************************************************************)
EXTENDS Integers, Sequences, FiniteSets, TLC

VARIABLES
  keys,        \* OpenRouterKeyProvider.keys: index -> OpenRouterKey
  now,         \* Date.now()
  checkKeys,   \* config.checkKeys
  ret,         \* outcome of the last get() or of the last probe
  call,        \* one application of a pure function: its input and result
  whitelistCache,  \* the catalogue generateWhitelist built, or NoCache
  modelsCache,     \* the upstream answer it was built from, or NoCache
  modelsCacheTime, \* when that answer arrived
  fetching,    \* the callers of refreshModels that await the upstream answer
  policy,      \* config.allowPaidOpenRouter, config.allowModeratedOpenRouter
  req          \* the request in the pipeline

storeVars == <<keys, now, checkKeys, ret>>
catalogueVars == <<whitelistCache, modelsCache, modelsCacheTime, fetching>>
\* everything outside the credential store
outside == <<call, catalogueVars, policy, req>>
vars == <<storeVars, outside>>

---------------------------------------------------------------------------
(* Bounds of the model *)

NumKeys == 2
MaxTicks == 2
TickMs == 500

Keys == 1..NumKeys

---------------------------------------------------------------------------
(* Program constants *)

RATE_LIMIT_LOCKOUT == 2000
KEY_REUSE_DELAY == 500
\* `null` of creditLimit / keyData.limit (number | null)
Null == -1
\* the balance written when the balance is unknown and no limit is set
UNLIMITED_BALANCE == 999

Max(a, b) == IF a >= b THEN a ELSE b

---------------------------------------------------------------------------
(* Strings *)

StartsWith(s, p) == Len(p) <= Len(s) /\ SubSeq(s, 1, Len(p)) = p

EndsWith(s, p) ==
  Len(p) <= Len(s) /\ SubSeq(s, Len(s) - Len(p) + 1, Len(s)) = p

Includes(s, p) ==
  \E i \in 0..(Len(s) - Len(p)) : SubSeq(s, i + 1, i + Len(p)) = p

FREE_SUFFIX == <<":", "f", "r", "e", "e">>

M_gpt4o == <<"o", "p", "e", "n", "a", "i", "/", "g", "p", "t", "-", "4", "o">>
M_llamaFree == <<"m", "e", "t", "a", "/", "l", "l", "a", "m", "a", ":", "f", "r", "e", "e">>

M_gpt4oMini == <<"o", "p", "e", "n", "a", "i", "/", "g", "p", "t", "-", "4", "o", "-", "m", "i", "n", "i">>
M_claude == <<"a", "n", "t", "h", "r", "o", "p", "i", "c", "/", "c", "l", "a", "u", "d", "e">>

\* model ids handed to get()
GetModels == {M_gpt4o, M_llamaFree}

UpperCase == <<"A", "B", "C", "D", "E", "F", "G", "H", "I", "J", "K", "L", "M", "N", "O", "P", "Q", "R", "S", "T", "U", "V", "W", "X", "Y", "Z">>
LowerCase == <<"a", "b", "c", "d", "e", "f", "g", "h", "i", "j", "k", "l", "m", "n", "o", "p", "q", "r", "s", "t", "u", "v", "w", "x", "y", "z">>
Digits == {"0", "1", "2", "3", "4", "5", "6", "7", "8", "9"}

ToLowerChar(c) ==
  IF \E i \in 1..Len(UpperCase) : UpperCase[i] = c
  THEN LowerCase[CHOOSE i \in 1..Len(UpperCase) : UpperCase[i] = c]
  ELSE c

\* String.prototype.toLowerCase
ToLowerCase(s) == [i \in 1..Len(s) |-> ToLowerChar(s[i])]

RECURSIVE Strip(_, _)
\* s without the characters of the set cs
Strip(s, cs) ==
  IF s = <<>> THEN <<>>
  ELSE IF Head(s) \in cs THEN Strip(Tail(s), cs)
  ELSE <<Head(s)>> \o Strip(Tail(s), cs)

RECURSIVE Split(_, _)
\* String.prototype.split(sep) for a one-character separator
Split(s, sep) ==
  IF \A i \in 1..Len(s) : s[i] # sep THEN <<s>>
  ELSE LET i == CHOOSE j \in 1..Len(s) :
                  s[j] = sep /\ \A h \in 1..(j - 1) : s[h] # sep
       IN <<SubSeq(s, 1, i - 1)>> \o Split(SubSeq(s, i + 1, Len(s)), sep)

---------------------------------------------------------------------------
(* The credential store *)

\* hash: `or-${sha256(key).slice(0, 8)}`, one per configured (deduplicated) key
HashOf(k) == k

NoUsage == [f \in {} |-> 0]

\* constructor: the key pushed for each configured secret
NewKey(k) ==
  [ hash |-> HashOf(k),
    isDisabled |-> FALSE,
    isRevoked |-> FALSE,
    promptCount |-> 0,
    lastUsed |-> 0,
    rateLimitedAt |-> 0,
    rateLimitedUntil |-> 0,
    lastChecked |-> 0,
    isFreeTier |-> TRUE,
    balance |-> 0,
    creditLimit |-> 0,
    usage |-> 0,
    rpm |-> 0,
    tier |-> "restricted",
    tokenUsage |-> NoUsage ]

\* an init() that forces unlimited whatever config.checkKeys says
InitKeyAlwaysUnlimited(k, check) ==
  [NewKey(k) EXCEPT !.tier = "unlimited", !.balance = UNLIMITED_BALANCE]

\* init(): without key checking every key is forced to unlimited
InitKey(k, check) ==
  IF check THEN NewKey(k)
  ELSE [NewKey(k) EXCEPT !.tier = "unlimited", !.balance = UNLIMITED_BALANCE]

\* Object.assign(target, source)
Assign(target, source) ==
  [f \in DOMAIN target |-> IF f \in DOMAIN source THEN source[f] ELSE target[f]]

\* an update that builds the key anew instead of assigning to it
UpdateReplacesKey(ks, hash, upd, t) ==
  LET k == CHOOSE i \in Keys : ks[i].hash = hash
      src == [f \in DOMAIN upd \cup {"lastChecked"} |->
                IF f \in DOMAIN upd THEN upd[f] ELSE t]
  IN [ks EXCEPT ![k] = Assign(NewKey(k), src)]

\* update(hash, update): Object.assign(key, { lastChecked: Date.now(), ...update })
Update(ks, hash, upd, t) ==
  LET k == CHOOSE i \in Keys : ks[i].hash = hash
      src == [f \in DOMAIN upd \cup {"lastChecked"} |->
                IF f \in DOMAIN upd THEN upd[f] ELSE t]
  IN [ks EXCEPT ![k] = Assign(ks[k], src)]


---------------------------------------------------------------------------
(* Outcome of the last call of get or of the last probe: what the call  *)
(* returned or threw, or the answers the probe got.  Any other operation  *)
(* leaves no outcome.                                                      *)

NoKey == [hash |-> 0]
NoAnswer == <<>>

Idle ==
  [op |-> "none", kind |-> "void", error |-> "", message |-> "",
   model |-> <<>>, hash |-> 0, key |-> NoKey, status |-> 0, answer |-> NoAnswer]

\* an operation without a result
Did(op) == [Idle EXCEPT !.op = op]

Returned(op, model, key) ==
  [Idle EXCEPT !.op = op, !.kind = "return", !.model = model,
               !.hash = key.hash, !.key = key]

Threw(op, model, error, message) ==
  [Idle EXCEPT !.op = op, !.kind = "throw", !.model = model,
               !.error = error, !.message = message]

Probed(hash, status, answer) ==
  [Idle EXCEPT !.op = "checkKey", !.hash = hash, !.status = status,
               !.answer = answer]

---------------------------------------------------------------------------
(* Selector: OpenRouterKeyProvider.get *)

\* keys.filter((k) => !k.isDisabled && !k.isRevoked)
ActiveKeys(ks) == {k \in Keys : ~ks[k].isDisabled /\ ~ks[k].isRevoked}

IsFreeModel(model) == EndsWith(model, FREE_SUFFIX)

\* a free branch that keeps dead keys
FreeFilterNoTier(key) == TRUE

\* a free branch that asks for a balance
FreeFilterNeedsBalance(key) == key.tier # "deadkey" /\ key.balance > 0

\* the filter of the free branch
FreeFilter(key) == key.tier # "deadkey"

\* a paid branch that forgets the balance
PaidFilterNoBalance(key) == key.tier # "deadkey"

\* the filter of the paid branch
PaidFilter(key) ==
  IF key.tier = "deadkey" THEN FALSE
  ELSE IF key.balance > 0 THEN TRUE
  ELSE IF key.tier = "unlimited" THEN TRUE
  ELSE FALSE

\* availableKeys after the second filter
RetainedKeys(ks, model) ==
  IF IsFreeModel(model)
  THEN {k \in ActiveKeys(ks) : FreeFilter(ks[k])}
  ELSE {k \in ActiveKeys(ks) : PaidFilter(ks[k])}

\* prioritizeKeys comparator: keys that are not rate limited first, then the
\* one whose lockout ends first; otherwise the least recently used first.
\* TRUE when a sorts strictly before b.
KeyBefore(a, b, t) ==
  LET aLimited == t < a.rateLimitedUntil
      bLimited == t < b.rateLimitedUntil
  IN IF aLimited /\ ~bLimited THEN FALSE
     ELSE IF ~aLimited /\ bLimited THEN TRUE
     ELSE IF aLimited /\ bLimited THEN a.rateLimitedUntil < b.rateLimitedUntil
     ELSE a.lastUsed < b.lastUsed

\* prioritizeKeys(availableKeys)[0]; the sort is stable, so among equals the
\* first of the array wins
PrioritizeKeysFirst(ks, S, t) ==
  CHOOSE k \in S :
    \A j \in S \ {k} :
      \/ KeyBefore(ks[k], ks[j], t)
      \/ (~KeyBefore(ks[j], ks[k], t) /\ k < j)

\* a throttle that forgets a longer lockout
ThrottleNoMax(ks, hash, t) ==
  LET k == CHOOSE i \in Keys : ks[i].hash = hash
  IN [ks EXCEPT ![k].rateLimitedUntil = t + KEY_REUSE_DELAY]

\* throttle(hash)
Throttle(ks, hash, t) ==
  LET k == CHOOSE i \in Keys : ks[i].hash = hash
  IN [ks EXCEPT ![k].rateLimitedUntil = Max(@, t + KEY_REUSE_DELAY)]

\* a selection that does not record the time of use
SelectedNoLastUsed(ks, k, t) == Throttle(ks, ks[k].hash, t)

\* the keys after get() picked `k`
Selected(ks, k, t) == Throttle([ks EXCEPT ![k].lastUsed = t], ks[k].hash, t)

\* get(model): the keys afterwards and what the call returned or threw
GetOutcome(ks, model, t) ==
  LET retained == RetainedKeys(ks, model) IN
  IF ActiveKeys(ks) = {}
  THEN [keys |-> ks,
        ret |-> Threw("get", model, "PaymentRequiredError",
                      "No OpenRouter keys available.")]
  ELSE IF ~IsFreeModel(model) /\ retained = {}
  THEN [keys |-> ks,
        ret |-> Threw("get", model, "PaymentRequiredError",
                      "No paid OpenRouter keys available.")]
  ELSE IF retained = {}
  THEN \* prioritizeKeys([])[0] is undefined: selectedKey.lastUsed = ... throws
       [keys |-> ks,
        ret |-> Threw("get", model, "TypeError", "selectedKey is undefined")]
  ELSE LET k == PrioritizeKeysFirst(ks, retained, t)
           after == Selected(ks, k, t)
       IN [keys |-> after, ret |-> Returned("get", model, after[k])]

Get(model) ==
  /\ keys' = GetOutcome(keys, model, now).keys
  /\ ret' = GetOutcome(keys, model, now).ret
  /\ UNCHANGED <<now, checkKeys, outside>>

---------------------------------------------------------------------------
(* Other operations of the store *)

\* markRateLimited(keyHash)
MarkRateLimited(k) ==
  /\ keys' = [keys EXCEPT ![k].rateLimitedUntil = now + RATE_LIMIT_LOCKOUT]
  /\ ret' = Did("markRateLimited")
  /\ UNCHANGED <<now, checkKeys, outside>>

\* a recheck that re-enables revoked keys too
RecheckTargetsAll(ks) == {k \in Keys : ks[k].isDisabled}

\* the keys recheck() re-enables
RecheckTargets(ks) == {k \in Keys : ks[k].isDisabled /\ ~ks[k].isRevoked}

RECURSIVE UpdateAll(_, _, _, _)
UpdateAll(ks, S, upd, t) ==
  IF S = {} THEN ks
  ELSE LET k == CHOOSE i \in S : TRUE
       IN UpdateAll(Update(ks, ks[k].hash, upd, t), S \ {k}, upd, t)

\* recheck()
Recheck ==
  /\ keys' = UpdateAll(keys, RecheckTargets(keys), [isDisabled |-> FALSE], now)
  /\ ret' = Did("recheck")
  /\ UNCHANGED <<now, checkKeys, outside>>

\* disable(key)
Disable(k) ==
  /\ keys' = [keys EXCEPT ![k].isDisabled = TRUE]
  /\ ret' = Did("disable")
  /\ UNCHANGED <<now, checkKeys, outside>>

\* the clock advances
Tick ==
  /\ now < MaxTicks * TickMs
  /\ now' = now + TickMs
  /\ ret' = Did("tick")
  /\ UNCHANGED <<keys, checkKeys, outside>>

---------------------------------------------------------------------------
(* The probe: OpenRouterKeyChecker *)

\* What the two lookups of one probe can answer.
\*   key:     the /auth/key lookup: fulfilled with data (or with no data), or
\*            rejected with an HTTP status (0: no response at all)
\*   credits: the /credits lookup: fulfilled with total_credits, or rejected
Limits == {Null, 100}
Usages == {0, 100, 150}
TotalCredits == {0, 5}
HttpFailures == {401, 402, 500, 0}

NoRateLimit == [present |-> FALSE, requests |-> 0, interval |-> 0]

\* rate_limit: requests per interval seconds (interval 0: no interval given)
RateLimits ==
  {NoRateLimit} \cup [present : {TRUE}, requests : {10, 120}, interval : {0, 60}]

\* usage only matters against a limit: one usage is enough without one
KeyDatas ==
  {d \in [limit : Limits, usage : Usages, is_free_tier : BOOLEAN,
          rate_limit : {NoRateLimit}] : d.limit = Null => d.usage = 100}

NoData == [limit |-> Null, usage |-> 0, is_free_tier |-> FALSE,
           rate_limit |-> NoRateLimit]

KeyResults ==
  [status : {"fulfilled"}, hasData : {TRUE}, http : {200}, data : KeyDatas]
  \cup [status : {"fulfilled"}, hasData : {FALSE}, http : {200}, data : {NoData}]
  \cup [status : {"rejected"}, hasData : {FALSE}, http : HttpFailures, data : {NoData}]

CreditsRejected == [status |-> "rejected", total |-> 0]

CreditsResults == [status : {"fulfilled"}, total : TotalCredits] \cup {CreditsRejected}

\* the answers of one probe; the credits answer is not read when the key
\* lookup makes the probe throw
ProbeResults ==
  {p \in KeyResults \X CreditsResults :
     p[1].status = "rejected" \/ ~p[1].hasData => p[2] = CreditsRejected}

\* rpm = Math.floor(requests / interval) * 60, interval = parseInt(..) || 1
Rpm(rate) ==
  IF ~rate.present THEN 0
  ELSE LET interval == IF rate.interval = 0 THEN 1 ELSE rate.interval
       IN (rate.requests \div interval) * 60

\* a fallback that takes an unknown balance for an empty one
FallbackBalanceZero(limit, usage) ==
  IF limit # Null THEN Max(0, limit - usage) ELSE 0

\* the balance when the credits lookup failed
FallbackBalance(limit, usage) ==
  IF limit # Null THEN Max(0, limit - usage) ELSE UNLIMITED_BALANCE

ProbeBalance(credits, limit, usage) ==
  IF credits.status = "fulfilled" THEN credits.total
  ELSE FallbackBalance(limit, usage)

\* a tier that looks at the balance before the limit
ProbeTierBalanceFirst(limit, usage, balance, isFreeTier) ==
  IF balance > 0 THEN (IF limit = Null THEN "unlimited" ELSE "limited")
  ELSE IF isFreeTier THEN "restricted"
  ELSE "deadkey"

\* the tier of a probed key: tier, l.62-77
ProbeTier(limit, usage, balance, isFreeTier) ==
  LET limitReached == limit # Null /\ usage >= limit
  IN IF limitReached THEN "deadkey"
     ELSE IF balance > 0 THEN (IF limit = Null THEN "unlimited" ELSE "limited")
     ELSE IF isFreeTier THEN "restricted"
     ELSE "deadkey"

\* an update that never disables
ProbeUpdateEnabled(data, credits) ==
  LET balance == ProbeBalance(credits, data.limit, data.usage)
      tier == ProbeTier(data.limit, data.usage, balance, data.is_free_tier)
  IN [ isFreeTier |-> data.is_free_tier,
       balance |-> balance,
       creditLimit |-> data.limit,
       usage |-> data.usage,
       rpm |-> Rpm(data.rate_limit),
       tier |-> tier,
       isDisabled |-> FALSE,
       isRevoked |-> FALSE ]

\* the update testKeyOrFail hands to updateKey
ProbeUpdate(data, credits) ==
  LET balance == ProbeBalance(credits, data.limit, data.usage)
      tier == ProbeTier(data.limit, data.usage, balance, data.is_free_tier)
  IN [ isFreeTier |-> data.is_free_tier,
       balance |-> balance,
       creditLimit |-> data.limit,
       usage |-> data.usage,
       rpm |-> Rpm(data.rate_limit),
       tier |-> tier,
       isDisabled |-> (tier = "deadkey"),
       isRevoked |-> FALSE ]

\* testKeyOrFail throws: the key lookup was rejected, or answered without data
ProbeThrows(keyResult) == keyResult.status = "rejected" \/ ~keyResult.hasData

\* the error testKeyOrFail throws: an AxiosError with a response, or without
ProbeError(keyResult) ==
  IF keyResult.status = "rejected" /\ keyResult.http # 0
  THEN [hasResponse |-> TRUE, status |-> keyResult.http]
  ELSE [hasResponse |-> FALSE, status |-> 0]

\* an error handler that takes every HTTP failure but 401 for a 402
HandleAxiosErrorAnyStatus(ks, k, error, t) ==
  IF error.hasResponse /\ error.status = 401
  THEN Update(ks, ks[k].hash,
              [isDisabled |-> TRUE, isRevoked |-> TRUE, tier |-> "deadkey"], t)
  ELSE IF error.hasResponse
  THEN Update(ks, ks[k].hash,
              [isDisabled |-> TRUE, tier |-> "deadkey", balance |-> 0], t)
  ELSE ks

\* handleAxiosError(key, error): the keys afterwards
HandleAxiosError(ks, k, error, t) ==
  IF error.hasResponse /\ error.status = 401
  THEN Update(ks, ks[k].hash,
              [isDisabled |-> TRUE, isRevoked |-> TRUE, tier |-> "deadkey"], t)
  ELSE IF error.hasResponse /\ error.status = 402
  THEN Update(ks, ks[k].hash,
              [isDisabled |-> TRUE, tier |-> "deadkey", balance |-> 0], t)
  ELSE ks

\* testKeyOrFail(key) when it does not throw: the keys afterwards
TestKeyOrFail(ks, k, keyResult, creditsResult, t) ==
  Update(ks, ks[k].hash, ProbeUpdate(keyResult.data, creditsResult), t)

\* KeyCheckerBase.checkKey: one probe of key k; a throw of testKeyOrFail goes
\* to handleAxiosError.  The update is one synchronous call after the awaits
\* and reads nothing of the key but its hash, so the probe is one step.
CheckKeyOutcome(ks, k, keyResult, creditsResult, t) ==
  IF ProbeThrows(keyResult)
  THEN [keys |-> HandleAxiosError(ks, k, ProbeError(keyResult), t),
        ret |-> Probed(ks[k].hash, ProbeError(keyResult).status,
                       <<keyResult, creditsResult>>)]
  ELSE [keys |-> TestKeyOrFail(ks, k, keyResult, creditsResult, t),
        ret |-> Probed(ks[k].hash, 200, <<keyResult, creditsResult>>)]

\* the checker exists only when config.checkKeys is set
CheckKey(k, keyResult, creditsResult) ==
  /\ checkKeys
  /\ keys' = CheckKeyOutcome(keys, k, keyResult, creditsResult, now).keys
  /\ ret' = CheckKeyOutcome(keys, k, keyResult, creditsResult, now).ret
  /\ UNCHANGED <<now, checkKeys, outside>>

---------------------------------------------------------------------------
(* The model resolver: resolveModel *)

\* the value `undefined`
Undefined == <<"undefined">>

\* normalize(str): lower case, without ".", "-" and "/"
Normalize(str) == Strip(ToLowerCase(str), {".", "-", "/"})

\* the shortcuts table, in the order of its keys: prefix and the regular
\* expression tested on the lower-cased input, as its alternatives (words),
\* whether it is anchored at the start, and whether o<digit> is one of them
Shortcuts ==
  <<[prefix |-> <<"o", "p", "e", "n", "a", "i", "/">>, anchored |-> TRUE,
      words |-> {<<"g", "p", "t">>, <<"c", "o", "d", "e", "x">>, <<"c", "h", "a", "t", "g", "p", "t">>}, oDigit |-> TRUE],
     [prefix |-> <<"a", "n", "t", "h", "r", "o", "p", "i", "c", "/">>, anchored |-> TRUE,
      words |-> {<<"c", "l", "a", "u", "d", "e">>}, oDigit |-> FALSE],
     [prefix |-> <<"g", "o", "o", "g", "l", "e", "/">>, anchored |-> TRUE,
      words |-> {<<"g", "e", "m", "i", "n", "i">>, <<"g", "e", "m", "m", "a">>}, oDigit |-> FALSE],
     [prefix |-> <<"x", "-", "a", "i", "/">>, anchored |-> TRUE,
      words |-> {<<"g", "r", "o", "k">>}, oDigit |-> FALSE],
     [prefix |-> <<"d", "e", "e", "p", "s", "e", "e", "k", "/">>, anchored |-> TRUE,
      words |-> {<<"d", "e", "e", "p", "s", "e", "e", "k">>}, oDigit |-> FALSE],
     [prefix |-> <<"m", "i", "s", "t", "r", "a", "l", "a", "i", "/">>, anchored |-> TRUE,
      words |-> {<<"m", "i", "s", "t", "r", "a", "l">>}, oDigit |-> FALSE],
     [prefix |-> <<"z", "-", "a", "i", "/">>, anchored |-> TRUE,
      words |-> {<<"g", "l", "m">>}, oDigit |-> FALSE],
     [prefix |-> <<"a", "m", "a", "z", "o", "n", "/">>, anchored |-> TRUE,
      words |-> {<<"n", "o", "v", "a">>}, oDigit |-> FALSE],
     [prefix |-> <<"m", "o", "o", "n", "s", "h", "o", "t", "a", "i", "/">>, anchored |-> TRUE,
      words |-> {<<"k", "i", "m", "i">>}, oDigit |-> FALSE],
     [prefix |-> <<"q", "w", "e", "n", "/">>, anchored |-> FALSE,
      words |-> {<<"q", "w", "e", "n">>, <<"q", "w", "q">>}, oDigit |-> FALSE]>>

\* shortcuts[p].test(inputLow)
ShortcutTest(rule, inputLow) ==
  \/ \E w \in rule.words :
       IF rule.anchored THEN StartsWith(inputLow, w) ELSE Includes(inputLow, w)
  \/ /\ rule.oDigit
     /\ Len(inputLow) >= 2 /\ inputLow[1] = "o" /\ inputLow[2] \in Digits

BANANA == <<"b", "a", "n", "a", "n", "a">>
GOOGLE_PREFIX == <<"g", "o", "o", "g", "l", "e", "/">>

\* the detected provider prefix; <<>> when there is none
ProviderPrefix(inputLow) ==
  IF \E i \in 1..Len(Shortcuts) : ShortcutTest(Shortcuts[i], inputLow)
  THEN Shortcuts[CHOOSE i \in 1..Len(Shortcuts) :
                   /\ ShortcutTest(Shortcuts[i], inputLow)
                   /\ \A j \in 1..(i - 1) : ~ShortcutTest(Shortcuts[j], inputLow)].prefix
  ELSE IF Includes(inputLow, BANANA) THEN GOOGLE_PREFIX
  ELSE <<>>

\* id.split('/')[1]: the second segment, or undefined
SecondSegment(id) ==
  IF Len(Split(id, "/")) >= 2 THEN Split(id, "/")[2] ELSE Undefined

\* the filter of the candidates reaches this model (its prefix test passes)
PassesPrefix(m, prefix) == prefix = <<>> \/ StartsWith(m.id, prefix)

\* the candidates filter, for a model whose id has a second segment
IsCandidate(m, prefix, inputLow) ==
  /\ PassesPrefix(m, prefix)
  /\ LET name == SecondSegment(ToLowerCase(m.id))
     IN \/ name = inputLow
        \/ Includes(name, inputLow)
        \/ Normalize(name) = Normalize(inputLow)

\* Array.prototype.filter
RECURSIVE Filter(_, _, _)
Filter(seq, prefix, inputLow) ==
  IF seq = <<>> THEN <<>>
  ELSE IF IsCandidate(Head(seq), prefix, inputLow)
       THEN <<Head(seq)>> \o Filter(Tail(seq), prefix, inputLow)
       ELSE Filter(Tail(seq), prefix, inputLow)

\* Array.prototype.find: the index of the first element of the set of
\* indices I, or 0
FirstOf(I) == IF I = {} THEN 0 ELSE CHOOSE i \in I : \A j \in I : i <= j

NoModelData ==
  [id |-> <<>>, context |-> 0, pricing |-> [input |-> "0", output |-> "0"],
   is_moderated |-> FALSE]

Resolved(m) == [threw |-> FALSE, error |-> "", model |-> m]
ResolveError(e) == [threw |-> FALSE, error |-> e, model |-> NoModelData]
ResolveThrew == [threw |-> TRUE, error |-> "TypeError", model |-> NoModelData]

\* a policy check that tests is_moderated before the price
CheckPolicyModeratedFirst(foundModel, config) ==
  LET isPaid == foundModel.pricing.input # "0" \/ foundModel.pricing.output # "0"
  IN IF foundModel.is_moderated /\ ~config.allowModerated
     THEN ResolveError("prohibit_moderated")
     ELSE IF isPaid /\ ~config.allowPaid THEN ResolveError("prohibit_paid")
     ELSE Resolved(foundModel)

\* step 3 of resolveModel: the policy check on the model found
CheckPolicy(foundModel, config) ==
  LET isPaid == foundModel.pricing.input # "0" \/ foundModel.pricing.output # "0"
  IN IF isPaid /\ ~config.allowPaid THEN ResolveError("prohibit_paid")
     ELSE IF foundModel.is_moderated /\ ~config.allowModerated
     THEN ResolveError("prohibit_moderated")
     ELSE Resolved(foundModel)

\* an exact match that compares the id with the input as it is written
ExactMatchCaseSensitive(allModels, inputLow) ==
  FirstOf({i \in 1..Len(allModels) : allModels[i].id = inputLow})

\* step 1: allModels.find(m => m.id.toLowerCase() === inputLow), as an index
ExactMatch(allModels, inputLow) ==
  FirstOf({i \in 1..Len(allModels) : ToLowerCase(allModels[i].id) = inputLow})

\* a best match that tries the normalized suffix before the exact suffix
BestMatchNormalizedFirst(candidates, inputLow) ==
  LET bySuffix == FirstOf({i \in 1..Len(candidates) :
          ToLowerCase(SecondSegment(candidates[i].id)) = inputLow})
      byNormal == FirstOf({i \in 1..Len(candidates) :
          Normalize(SecondSegment(candidates[i].id)) = Normalize(inputLow)})
  IN IF byNormal # 0 THEN byNormal ELSE bySuffix

\* bestMatch: the first candidate whose suffix is the input, else the first
\* whose normalized suffix is the normalized input; as an index, 0 for none
BestMatch(candidates, inputLow) ==
  LET bySuffix == FirstOf({i \in 1..Len(candidates) :
          ToLowerCase(SecondSegment(candidates[i].id)) = inputLow})
      byNormal == FirstOf({i \in 1..Len(candidates) :
          Normalize(SecondSegment(candidates[i].id)) = Normalize(inputLow)})
  IN IF bySuffix # 0 THEN bySuffix ELSE byNormal

\* a fallback that takes the first of several candidates
SoleCandidateFirstOfMany(candidates) ==
  IF Len(candidates) >= 1 THEN 1 ELSE 0

\* without a best match: candidates[0] when candidates.length === 1; as an
\* index, 0 for "not_found"
SoleCandidate(candidates) ==
  IF Len(candidates) = 1 THEN 1 ELSE 0

\* the error of a name that resolves to no model
NOT_FOUND == "not_found"

\* Object.values(whitelist).flat()
RECURSIVE AllModels(_)
AllModels(whitelist) ==
  IF whitelist = <<>> THEN <<>>
  ELSE Head(whitelist).models \o AllModels(Tail(whitelist))

\* resolveModel(userInput, whitelist, config), for a whitelist that is an
\* object and an input that is a string
ResolveModel(userInput, whitelist, config) ==
  LET allModels == AllModels(whitelist)
      inputLow == ToLowerCase(userInput)
      exact == ExactMatch(allModels, inputLow)
  IN IF exact # 0 THEN CheckPolicy(allModels[exact], config)
     ELSE
       LET prefix == ProviderPrefix(inputLow)
       IN \* name.includes(..) of a model id without "/" throws
          IF \E i \in 1..Len(allModels) :
               /\ PassesPrefix(allModels[i], prefix)
               /\ SecondSegment(ToLowerCase(allModels[i].id)) = Undefined
          THEN ResolveThrew
          ELSE
            LET candidates == Filter(allModels, prefix, inputLow)
                bestMatch == BestMatch(candidates, inputLow)
                sole == SoleCandidate(candidates)
            IN IF bestMatch # 0 THEN CheckPolicy(candidates[bestMatch], config)
               ELSE IF sole # 0 THEN CheckPolicy(candidates[sole], config)
               ELSE ResolveError(NOT_FOUND)

---------------------------------------------------------------------------
(* The catalogue: generateWhitelist and refreshModels *)

OTHER_FAMILY == "OpRout_Other"

\* OPENROUTER_FAMILY_MAP: the ordered (pattern, family) rules
OPENROUTER_FAMILY_MAP ==
  <<[pattern |-> <<"o", "p", "e", "n", "a", "i", "/">>, family |-> "OpRout_OpenAI"],
    [pattern |-> <<"a", "n", "t", "h", "r", "o", "p", "i", "c", "/">>, family |-> "OpRout_Anthropic"]>>

\* new RegExp(regex).test(id), for a pattern of plain characters after an
\* optional "^": the pattern occurs in the id, at its start when anchored
RegExpTest(pattern, id) ==
  IF pattern # <<>> /\ Head(pattern) = "^"
  THEN StartsWith(id, Tail(pattern))
  ELSE Includes(id, pattern)

\* the category the loop of generateWhitelist gives a model id under a table
\* of rules: the family of the first pattern that tests true
CategoryOf(rules, id) ==
  LET hits == {i \in 1..Len(rules) : RegExpTest(rules[i].pattern, id)}
  IN IF hits = {} THEN OTHER_FAMILY ELSE rules[FirstOf(hits)].family

\* the category generateWhitelist gives a model id
Category(id) == CategoryOf(OPENROUTER_FAMILY_MAP, id)

\* the ModelMetadata of an upstream model descriptor
Processed(m) ==
  [id |-> m.id,
   context |-> m.context_length,
   pricing |-> [input |-> m.pricing.prompt, output |-> m.pricing.completion],
   is_moderated |-> m.is_moderated]

RECURSIVE ProcessedOf(_, _)
\* the models of one category, in the order of the upstream list
ProcessedOf(data, family) ==
  IF data = <<>> THEN <<>>
  ELSE IF Category(Head(data).id) = family
       THEN <<Processed(Head(data))>> \o ProcessedOf(Tail(data), family)
       ELSE ProcessedOf(Tail(data), family)

RECURSIVE FamilyKeys(_, _)
\* the keys of `result` in insertion order: the families of the map, once each
FamilyKeys(rules, seen) ==
  IF rules = <<>> THEN <<>>
  ELSE IF Head(rules).family \in seen THEN FamilyKeys(Tail(rules), seen)
  ELSE <<Head(rules).family>>
         \o FamilyKeys(Tail(rules), seen \cup {Head(rules).family})

\* generateWhitelist(rawResponse): the categories in key order, each with its
\* models; the "Other" key is added when a first model falls into it
GenerateWhitelist(raw) ==
  LET mapKeys == FamilyKeys(OPENROUTER_FAMILY_MAP, {})
      data == IF raw.hasData THEN raw.data ELSE <<>>
      other == IF /\ \E i \in 1..Len(data) : Category(data[i].id) = OTHER_FAMILY
                  /\ \A i \in 1..Len(mapKeys) : mapKeys[i] # OTHER_FAMILY
               THEN <<OTHER_FAMILY>> ELSE <<>>
      families == mapKeys \o other
  IN [i \in 1..Len(families) |->
        [family |-> families[i], models |-> ProcessedOf(data, families[i])]]

\* what the upstream /models endpoint answers
Upstream ==
  [hasData |-> TRUE,
   data |->
     <<[id |-> M_gpt4o, context_length |-> 8,
        pricing |-> [prompt |-> "0.5", completion |-> "1.5"], is_moderated |-> FALSE],
       [id |-> M_gpt4oMini, context_length |-> 8,
        pricing |-> [prompt |-> "0.1", completion |-> "0.3"], is_moderated |-> FALSE],
       [id |-> M_llamaFree, context_length |-> 8,
        pricing |-> [prompt |-> "0", completion |-> "0"], is_moderated |-> FALSE],
       [id |-> M_claude, context_length |-> 8,
        pricing |-> [prompt |-> "3", completion |-> "15"], is_moderated |-> TRUE]>>]

MODELS_TTL == 3600000

NoCache == [set |-> FALSE, value |-> <<>>]
Cached(v) == [set |-> TRUE, value |-> v]

\* refreshModels() goes to the upstream: its cache is empty or too old
RefreshFetches ==
  ~(now - modelsCacheTime < MODELS_TTL /\ modelsCache.set)

\* the caches after refreshModels' fetch answered (ok) or failed
FetchAnswered(ok) ==
  IF ok
  THEN /\ whitelistCache' = Cached(GenerateWhitelist(Upstream))
       /\ modelsCache' = Cached(Upstream)
       /\ modelsCacheTime' = now
  ELSE UNCHANGED <<whitelistCache, modelsCache, modelsCacheTime>>

---------------------------------------------------------------------------
(* Usage accounting: incrementUsage *)

\* the family the loop of getOpenRouterModelFamily gives a model id under a
\* table of rules: the family of the first key the id starts with
FamilyOf(rules, modelId) ==
  IF modelId = <<>> \/ modelId = Undefined THEN OTHER_FAMILY
  ELSE LET hits == {i \in 1..Len(rules) : StartsWith(modelId, rules[i].pattern)}
       IN IF hits = {} THEN OTHER_FAMILY ELSE rules[FirstOf(hits)].family

\* getOpenRouterModelFamily(modelId): the family of the first prefix of the
\* map the id starts with
GetOpenRouterModelFamily(modelId) == FamilyOf(OPENROUTER_FAMILY_MAP, modelId)

\* an accounting that stores the tokens of the last call instead of adding
AddTokensOverwrite(tokenUsage, family, tokens) ==
  [f \in DOMAIN tokenUsage \cup {family} |->
     IF f = family THEN [input |-> tokens.input, output |-> tokens.output]
     ELSE tokenUsage[f]]

\* tokenUsage[family] is created at zero when missing, then added to
AddTokens(tokenUsage, family, tokens) ==
  LET created == [f \in DOMAIN tokenUsage \cup {family} |->
                    IF f \in DOMAIN tokenUsage THEN tokenUsage[f]
                    ELSE [input |-> 0, output |-> 0]]
  IN [created EXCEPT ![family] = [input |-> @.input + tokens.input,
                                  output |-> @.output + tokens.output]]

\* incrementUsage(keyHash, model, tokens): the keys after it
IncrementUsage(ks, keyHash, model, tokens) ==
  IF \A k \in Keys : ks[k].hash # keyHash THEN ks
  ELSE LET k == CHOOSE i \in Keys : ks[i].hash = keyHash
       IN [ks EXCEPT ![k].promptCount = @ + 1,
                     ![k].tokenUsage =
                        AddTokens(@, GetOpenRouterModelFamily(model), tokens)]

---------------------------------------------------------------------------
(* The request pipeline: the routes of the OpenRouter router *)

NoReq ==
  [pc |-> "none", route |-> "", model |-> Undefined, sent |-> Undefined,
   promptTokens |-> 0, key |-> 0, selects |-> 0, error |-> "",
   keysBefore |-> <<>>]

MODELS_PREFIX == <<"m", "o", "d", "e", "l", "s", "/">>

\* consolidateModelFromParams: req.params.modelId.replace(/^models\//, "")
ConsolidateModelFromParams(body, modelId) ==
  IF modelId # Undefined /\ modelId # <<>> /\ (body = Undefined \/ body = <<>>)
  THEN IF StartsWith(modelId, MODELS_PREFIX)
       THEN SubSeq(modelId, Len(MODELS_PREFIX) + 1, Len(modelId))
       ELSE modelId
  ELSE body

\* a resolveOpenRouterModel without the context check
ResolveOpenRouterModelNoContext(userModel, promptTokens, whitelist, conf) ==
  IF ~whitelist.set \/ userModel = Undefined
  THEN [threw |-> TRUE, error |-> "TypeError", model |-> userModel]
  ELSE LET res == ResolveModel(userModel, whitelist.value, conf)
       IN IF res.threw
          THEN [threw |-> TRUE, error |-> "TypeError", model |-> userModel]
          ELSE IF res.error # ""
          THEN [threw |-> TRUE, error |-> res.error, model |-> userModel]
          ELSE [threw |-> FALSE, error |-> "", model |-> res.model.id]

\* resolveOpenRouterModel after its refresh: what it throws, or the
\* req.body.model it writes
ResolveOpenRouterModel(userModel, promptTokens, whitelist, conf) ==
  IF ~whitelist.set \/ userModel = Undefined
  THEN \* Object.values(null), undefined.toLowerCase()
       [threw |-> TRUE, error |-> "TypeError", model |-> userModel]
  ELSE LET res == ResolveModel(userModel, whitelist.value, conf)
       IN IF res.threw
          THEN [threw |-> TRUE, error |-> "TypeError", model |-> userModel]
          ELSE IF res.error # ""
          THEN [threw |-> TRUE, error |-> res.error, model |-> userModel]
          ELSE IF promptTokens > res.model.context
          THEN [threw |-> TRUE, error |-> "context", model |-> userModel]
          ELSE [threw |-> FALSE, error |-> "", model |-> res.model.id]

\* the request after resolveOpenRouterModel ran: a throw ends it in the
\* preprocessor, otherwise it is queued for the proxy
AfterResolve(r, whitelist) ==
  LET out == ResolveOpenRouterModel(r.model, r.promptTokens, whitelist, policy)
  IN IF out.threw THEN [r EXCEPT !.pc = "failed", !.error = out.error]
     ELSE [r EXCEPT !.pc = "queued", !.model = out.model]

Routes == {"openai", "anthropic-chat", "google-ai"}

\* a POST arrives: the google route consolidates the model, the preprocessor
\* counts the prompt tokens and calls resolveOpenRouterModel, which awaits
\* refreshModels() when there is no whitelist yet
Receive(route, body, modelId, tokens) ==
  /\ req.pc = "none"
  /\ LET model == IF route = "google-ai"
                  THEN ConsolidateModelFromParams(body, modelId) ELSE body
         r == [NoReq EXCEPT !.route = route, !.model = model, !.sent = model,
                            !.promptTokens = tokens, !.keysBefore = keys]
     IN IF ~whitelistCache.set /\ RefreshFetches
        THEN /\ req' = [r EXCEPT !.pc = "refreshing"]
             /\ fetching' = fetching \cup {"request"}
        ELSE /\ req' = AfterResolve(r, whitelistCache)
             /\ UNCHANGED fetching
  /\ UNCHANGED <<storeVars, call, whitelistCache, modelsCache, modelsCacheTime, policy>>

\* the fetch of the request's refreshModels() ends; resolveOpenRouterModel
\* goes on with the whitelist there is then
RequestFetchDone(ok) ==
  /\ req.pc = "refreshing" /\ "request" \in fetching
  /\ FetchAnswered(ok)
  /\ fetching' = fetching \ {"request"}
  /\ req' = AfterResolve(req, whitelistCache')
  /\ UNCHANGED <<storeVars, call, policy>>

\* the fetch of another caller of refreshModels() ends: the one started when
\* the module loads, or one of GET /v1/models
FetchDone(caller, ok) ==
  /\ caller \in fetching /\ caller # "request"
  /\ FetchAnswered(ok)
  /\ fetching' = fetching \ {caller}
  /\ UNCHANGED <<storeVars, call, policy, req>>

\* handleModelRequest: GET /v1/models
ModelsRequest ==
  /\ "models" \notin fetching
  /\ RefreshFetches
  /\ fetching' = fetching \cup {"models"}
  /\ UNCHANGED <<storeVars, call, whitelistCache, modelsCache, modelsCacheTime,
                 policy, req>>

\* addOpenRouterKey, the first mutation of the proxy
AddOpenRouterKey ==
  /\ req.pc = "queued"
  /\ LET out == GetOutcome(keys, req.model, now)
     IN /\ keys' = out.keys
        /\ ret' = out.ret
        /\ req' = IF out.ret.kind = "return"
                  THEN [req EXCEPT !.pc = "keyed", !.key = out.ret.hash,
                                   !.selects = @ + 1]
                  ELSE [req EXCEPT !.pc = "failed", !.error = out.ret.error,
                                   !.selects = @ + 1]
  /\ UNCHANGED <<now, checkKeys, call, catalogueVars, policy>>

\* the request ends: its answer or its error went to the caller
Finish ==
  /\ req.pc \in {"keyed", "failed"}
  /\ req' = NoReq
  /\ UNCHANGED <<storeVars, call, catalogueVars, policy>>

---------------------------------------------------------------------------
(* Specifications *)

NoCall == [fn |-> "none", done |-> FALSE, arg |-> <<>>, result |-> <<>>]

\* the store after the constructor and init()
InitStore ==
  /\ checkKeys \in BOOLEAN
  /\ keys = [k \in Keys |-> InitKey(k, checkKeys)]
  /\ now = 0
  /\ ret = Idle

\* The answers the store specification probes with: one per tier a successful
\* probe can write (deadkey with and without a balance), and every failure
StoreProbeResults ==
  {p \in ProbeResults :
     IF p[1].status = "rejected" THEN TRUE
     ELSE /\ p[1].hasData
          /\ p[1].data.usage # 100 \/ p[1].data.limit = Null
          /\ p[1].data.is_free_tier = (p[1].data.limit # Null)
          /\ p[2].status = "fulfilled"
          /\ p[1].data.usage = 150 => p[2].total = 5}

\* The credential store: selection interleaved with the probes, recheck,
\* disable and markRateLimited, all within one tick of the clock
Next ==
  \/ \E m \in GetModels : Get(m)
  \/ \E k \in Keys, p \in StoreProbeResults : CheckKey(k, p[1], p[2])
  \/ Recheck
  \/ \E k \in Keys : Disable(k)
  \/ \E k \in Keys : MarkRateLimited(k)

\* config.allowPaidOpenRouter ?? true, config.allowModeratedOpenRouter ?? false
DefaultPolicy == [allowPaid |-> TRUE, allowModerated |-> FALSE]

\* the router module after it loaded: its refreshModels() call awaits
InitCatalogue ==
  /\ whitelistCache = NoCache
  /\ modelsCache = NoCache
  /\ modelsCacheTime = 0
  /\ fetching = {"boot"}

Init ==
  /\ InitStore
  /\ call = NoCall
  /\ InitCatalogue
  /\ policy = DefaultPolicy
  /\ req = NoReq

Spec == Init /\ [][Next]_vars

---------------------------------------------------------------------------
(* One probe, over every answer of the two lookups *)

AllLimits == {Null, 0, 100}

AllKeyDatas ==
  [limit : AllLimits, usage : Usages, is_free_tier : BOOLEAN,
   rate_limit : RateLimits]

AllKeyResults ==
  [status : {"fulfilled"}, hasData : {TRUE}, http : {200}, data : AllKeyDatas]
  \cup {r \in KeyResults : ProbeThrows(r)}

AllProbeResults ==
  {p \in AllKeyResults \X CreditsResults :
     ProbeThrows(p[1]) => p[2] = CreditsRejected}

InitProbeFn ==
  /\ InitStore
  /\ checkKeys
  /\ call \in [fn : {"checkKey"}, done : {FALSE}, arg : AllProbeResults,
               result : {<<>>}]
  /\ InitCatalogue
  /\ policy = DefaultPolicy
  /\ req = NoReq

\* the checker probes one key of the fresh store and gets the answers call.arg
RunProbe(k) ==
  /\ call.fn = "checkKey" /\ ~call.done
  /\ keys' = CheckKeyOutcome(keys, k, call.arg[1], call.arg[2], now).keys
  /\ ret' = CheckKeyOutcome(keys, k, call.arg[1], call.arg[2], now).ret
  /\ call' = [call EXCEPT !.done = TRUE]
  /\ UNCHANGED <<now, checkKeys, catalogueVars, policy, req>>

\* the /auth/key lookup answers 401
Unauthorized ==
  [status |-> "rejected", hasData |-> FALSE, http |-> 401, data |-> NoData]

\* an earlier probe of a key found it revoked; call.result keeps its hash
RevokedBefore(k) ==
  /\ call.fn = "checkKey" /\ ~call.done /\ call.result = <<>>
  /\ keys' = CheckKeyOutcome(keys, k, Unauthorized, CreditsRejected, now).keys
  /\ ret' = CheckKeyOutcome(keys, k, Unauthorized, CreditsRejected, now).ret
  /\ call' = [call EXCEPT !.result = <<keys[k].hash>>]
  /\ UNCHANGED <<now, checkKeys, catalogueVars, policy, req>>

NextProbeFn ==
  \/ \E k \in Keys : RunProbe(k)
  \/ \E k \in Keys : RevokedBefore(k)

SpecProbeFn == InitProbeFn /\ [][NextProbeFn]_vars

---------------------------------------------------------------------------
(* Properties of the selector *)

\* the index of the key with this hash
KeyOf(hash) == CHOOSE k \in Keys : keys[k].hash = hash

GetReturned == ret.op = "get" /\ ret.kind = "return"

\* the credentials that are neither disabled nor revoked nor dead
LiveKeys == {k \in Keys : ~keys[k].isDisabled /\ ~keys[k].isRevoked
                          /\ keys[k].tier # "deadkey"}

\* C1: a credential returned by get() is, when it is selected, neither
\* disabled nor revoked nor of tier deadkey: both the returned copy and the
\* store's entry for it, for a free and for a paid target.
C1_SelectedIsUsable ==
  GetReturned =>
    /\ ~ret.key.isDisabled /\ ~ret.key.isRevoked /\ ret.key.tier # "deadkey"
    /\ KeyOf(ret.hash) \in LiveKeys

\* a key was returned while another one was enabled and dead
C1_Witness ==
  /\ GetReturned
  /\ \E j \in Keys : /\ keys[j].hash # ret.hash
                     /\ ~keys[j].isDisabled
                     /\ keys[j].tier = "deadkey"

\* C2: for a paid target (an id that does not end in ":free") get() never
\* returns a credential with balance <= 0 and a tier other than unlimited.
C2_PaidNeedsBalance ==
  GetReturned /\ ~EndsWith(ret.model, FREE_SUFFIX) =>
    ret.key.balance > 0 \/ ret.key.tier = "unlimited"

\* a paid get() returned a key while a live key without balance was passed over
C2_Witness ==
  /\ GetReturned /\ ~EndsWith(ret.model, FREE_SUFFIX)
  /\ \E j \in LiveKeys : keys[j].balance = 0 /\ keys[j].hash # ret.hash

\* C3: for a target ending in ":free" every credential that is not disabled,
\* not revoked and not deadkey is eligible whatever its balance: when there
\* is one, get() returns one of them, so that a single such credential with
\* balance 0 is returned instead of a failure.
C3_FreeIgnoresBalance ==
  ret.op = "get" /\ EndsWith(ret.model, FREE_SUFFIX) /\ LiveKeys # {} =>
    /\ ret.kind = "return"
    /\ KeyOf(ret.hash) \in LiveKeys
    /\ \A k \in Keys : LiveKeys = {k} => ret.hash = keys[k].hash

\* the only live credential has balance 0 and a free get() returned it
C3_Witness ==
  /\ GetReturned /\ EndsWith(ret.model, FREE_SUFFIX)
  /\ LiveKeys = {KeyOf(ret.hash)}
  /\ ret.key.balance = 0

\* C4: whenever the set retained by get()'s filtering is empty, for a free
\* as for a paid target, get() fails with PaymentRequiredError.
C4_EmptyRetainedIsPaymentRequired ==
  ret.op = "get" /\ RetainedKeys(keys, ret.model) = {} =>
    ret.kind = "throw" /\ ret.error = "PaymentRequiredError"

---------------------------------------------------------------------------
(* Properties of the tier and the flags *)

\* C5: in every reachable state every credential of tier deadkey is disabled.
C5_DeadkeyIsDisabled ==
  \A k \in Keys : keys[k].tier = "deadkey" => keys[k].isDisabled

ProbeApplied == ret.op = "checkKey" /\ ret.status \in {200, 401, 402}

\* C6: right after a probe update is applied to a credential (a successful
\* probe, a 401 or a 402), that credential is disabled if its tier is deadkey.
C6_DeadkeyDisabledAfterProbe ==
  ProbeApplied =>
    (keys[KeyOf(ret.hash)].tier = "deadkey" => keys[KeyOf(ret.hash)].isDisabled)

\* a successful probe wrote the tier deadkey
C6_Witness ==
  /\ ret.op = "checkKey" /\ ret.status = 200
  /\ keys[KeyOf(ret.hash)].tier = "deadkey"
  /\ keys[KeyOf(ret.hash)].isDisabled

\* C7: in every reachable state every revoked credential is disabled.
C7_RevokedIsDisabled ==
  \A k \in Keys : keys[k].isRevoked => keys[k].isDisabled

\* recheck() ran over a revoked credential and re-enabled another one
C7_Witness ==
  /\ ret.op = "recheck"
  /\ \E k, j \in Keys : /\ keys[k].isRevoked /\ keys[k].isDisabled
                        /\ keys[j].tier = "deadkey" /\ ~keys[j].isDisabled

\* C8: a failed probe is classified by its shape.  A 401 sets isDisabled,
\* isRevoked and tier deadkey; a 402 sets isDisabled, tier deadkey and
\* balance 0 and leaves isRevoked; any other failure (another status, no
\* response) leaves tier, balance, isDisabled and isRevoked as they were.
C8_FailureClassified ==
  [][ret'.op = "checkKey" /\ ret'.status # 200 =>
       LET before == keys[KeyOf(ret'.hash)]
           after == keys'[KeyOf(ret'.hash)]
       IN IF ret'.status = 401
          THEN after.isDisabled /\ after.isRevoked /\ after.tier = "deadkey"
          ELSE IF ret'.status = 402
          THEN /\ after.isDisabled /\ after.tier = "deadkey" /\ after.balance = 0
               /\ after.isRevoked = before.isRevoked
          ELSE /\ after.tier = before.tier
               /\ after.balance = before.balance
               /\ after.isDisabled = before.isDisabled
               /\ after.isRevoked = before.isRevoked]_vars

\* a 500 answered the probe of an enabled key with a balance, which stays so
C8_Witness ==
  /\ ret.op = "checkKey" /\ ret.status = 500
  /\ ~keys[KeyOf(ret.hash)].isDisabled
  /\ keys[KeyOf(ret.hash)].balance > 0

\* C9: when the key lookup succeeds and the credits lookup fails, the probe
\* succeeds and writes balance = max(0, limit - usage) if a limit is set and
\* 999 otherwise; with no limit and usage 100 the tier written is unlimited.
C9_CreditsFallback ==
  /\ call.fn = "checkKey" /\ call.done
  /\ ~ProbeThrows(call.arg[1])
  /\ call.arg[2].status = "rejected"
  => LET data == call.arg[1].data
         key == keys[KeyOf(ret.hash)]
     IN /\ ret.status = 200
        /\ key.lastChecked = now
        /\ key.balance = IF data.limit # Null
                         THEN (IF data.limit - data.usage > 0
                               THEN data.limit - data.usage ELSE 0)
                         ELSE 999
        /\ (data.limit = Null => key.tier = "unlimited")

\* no limit, usage 100, the credits lookup failed: the tier is unlimited
C9_Witness ==
  /\ call.fn = "checkKey" /\ call.done
  /\ ~ProbeThrows(call.arg[1])
  /\ call.arg[2].status = "rejected"
  /\ call.arg[1].data.limit = Null /\ call.arg[1].data.usage = 100
  /\ keys[KeyOf(ret.hash)].tier = "unlimited"
  /\ keys[KeyOf(ret.hash)].balance = 999

---------------------------------------------------------------------------
(* The request pipeline over the store *)

I_gpt4o == <<"g", "p", "t", "-", "4", "o">>
I_exactUpper == <<"O", "p", "e", "n", "A", "I", "/", "G", "P", "T", "-", "4", "o">>
I_llama == <<"l", "l", "a", "m", "a">>
I_claude == <<"c", "l", "a", "u", "d", "e">>
I_gpt == <<"g", "p", "t">>
I_unknown == <<"t", "o", "t", "a", "l", "l", "y", "-", "u", "n", "k", "n", "o", "w", "n", "-", "m", "o", "d", "e", "l">>
I_modelsGpt4o == <<"m", "o", "d", "e", "l", "s", "/", "g", "p", "t", "-", "4", "o">>

\* the model names callers send
UserInputs == {I_gpt4o, M_gpt4o, I_exactUpper, I_llama, I_claude, I_gpt, I_unknown}

\* req.body.model and req.params.modelId of the requests that arrive
RequestInputs ==
  [route : {"openai", "anthropic-chat"}, body : UserInputs \cup {Undefined},
   modelId : {Undefined}]
  \cup [route : {"google-ai"}, body : {Undefined, I_llama},
        modelId : {I_gpt4o, I_modelsGpt4o, I_unknown}]

\* req.promptTokens: within and beyond the context of the catalogued models
PromptTokens == {4, 16}

InitPipeline ==
  /\ InitStore
  /\ call = NoCall
  /\ InitCatalogue
  /\ policy \in [allowPaid : BOOLEAN, allowModerated : BOOLEAN]
  /\ req = NoReq

NextPipeline ==
  \/ \E i \in RequestInputs, t \in PromptTokens :
       Receive(i.route, i.body, i.modelId, t)
  \/ \E ok \in BOOLEAN : RequestFetchDone(ok)
  \/ \E c \in {"boot", "models"}, ok \in BOOLEAN : FetchDone(c, ok)
  \/ ModelsRequest
  \/ AddOpenRouterKey
  \/ Finish

SpecPipeline == InitPipeline /\ [][NextPipeline]_vars

\* the request's model name does not resolve on the upstream catalogue, is
\* refused by the policy, or resolves to a model whose context is smaller
\* than the prompt
ResolutionFails(r) ==
  \/ r.sent = Undefined
  \/ LET res == ResolveModel(r.sent, GenerateWhitelist(Upstream), policy)
     IN res.threw \/ res.error # "" \/ r.promptTokens > res.model.context

\* C10: a request whose model resolution, policy check or context check
\* fails ends before get() is called: it is never queued for the proxy nor
\* given a key, the store is as it was when the request arrived, and
\* req.body.model is the one resolveOpenRouterModel was entered with.
C10_FailedRequestSelectsNothing ==
  req.pc # "none" /\ ResolutionFails(req) =>
    /\ req.pc \in {"refreshing", "failed"}
    /\ req.selects = 0 /\ req.key = 0
    /\ keys = req.keysBefore
    /\ req.model = req.sent

\* a prompt beyond the context of the resolved model failed the request,
\* after an earlier request had been given a key
C10_Witness ==
  /\ req.pc = "failed" /\ req.error = "context"
  /\ ResolutionFails(req)
  /\ \E k \in Keys : keys[k].rateLimitedUntil > 0

---------------------------------------------------------------------------
(* resolveModel, over catalogues, inputs and policies *)

MaxCatalogue == 3

M_llamaGuard == <<"m", "e", "t", "a", "/", "l", "l", "a", "m", "a", "-", "g", "u", "a", "r", "d">>
M_gpt4dotO == <<"o", "p", "e", "n", "a", "i", "/", "g", "p", "t", "-", "4", ".", "o">>
M_noSlash == <<"l", "l", "a", "m", "a">>

M_gpt4oUpper == I_exactUpper

\* the descriptors the upstream may list: the four of Upstream, a free
\* moderated one, one that is paid by its completion price only and whose
\* suffix matches gpt-4o after normalization only, one whose id has no "/",
\* and one whose id is that of gpt-4o in other letter case
CataloguePool ==
  {Upstream.data[i] : i \in 1..Len(Upstream.data)}
  \cup {[id |-> M_llamaGuard, context_length |-> 8,
         pricing |-> [prompt |-> "0", completion |-> "0"], is_moderated |-> TRUE],
        [id |-> M_gpt4dotO, context_length |-> 8,
         pricing |-> [prompt |-> "0", completion |-> "1"], is_moderated |-> FALSE],
        [id |-> M_noSlash, context_length |-> 8,
         pricing |-> [prompt |-> "0", completion |-> "0"], is_moderated |-> FALSE],
        [id |-> M_gpt4oUpper, context_length |-> 8,
         pricing |-> [prompt |-> "0", completion |-> "0"], is_moderated |-> FALSE]}

\* the upstream lists: up to MaxCatalogue descriptors, none twice
Catalogues ==
  UNION {{c \in [1..n -> CataloguePool] :
            \A i, j \in 1..n : i # j => c[i] # c[j]} : n \in 0..MaxCatalogue}

\* the names resolveModel is called with
ResolveInputs == UserInputs \cup {M_llamaFree, M_noSlash, <<>>}

Policies == [allowPaid : BOOLEAN, allowModerated : BOOLEAN]

ResolveArgs ==
  [userInput : ResolveInputs, data : Catalogues, config : Policies]

InitResolve ==
  /\ InitStore
  /\ checkKeys
  /\ call \in [fn : {"resolveModel"}, done : {FALSE}, arg : ResolveArgs,
               result : {<<>>}]
  /\ InitCatalogue
  /\ policy = DefaultPolicy
  /\ req = NoReq

\* resolveModel(userInput, whitelist, config) on the whitelist generated from
\* the upstream list
RunResolve ==
  /\ call.fn = "resolveModel" /\ ~call.done
  /\ call' = [call EXCEPT
       !.done = TRUE,
       !.result = ResolveModel(call.arg.userInput,
                    GenerateWhitelist([hasData |-> TRUE, data |-> call.arg.data]),
                    call.arg.config)]
  /\ UNCHANGED <<storeVars, catalogueVars, policy, req>>

NextResolve == RunResolve

SpecResolve == InitResolve /\ [][NextResolve]_vars

---------------------------------------------------------------------------
(* Properties of the resolver *)

ResolveDone == call.fn = "resolveModel" /\ call.done

\* resolveModel returned a model
ResolveReturned == ResolveDone /\ ~call.result.threw /\ call.result.error = ""

\* the catalogued models of the call, as ModelMetadata
Catalogued == {Processed(call.arg.data[i]) : i \in 1..Len(call.arg.data)}

IsPaid(m) == m.pricing.input # "0" \/ m.pricing.output # "0"

\* the model the name of the call denotes, whatever the policy: what
\* resolveModel returns under the policy that allows everything
AllowAll == [allowPaid |-> TRUE, allowModerated |-> TRUE]
Denoted ==
  ResolveModel(call.arg.userInput,
    GenerateWhitelist([hasData |-> TRUE, data |-> call.arg.data]), AllowAll)

\* C11: resolve never returns a paid model when allowPaid is false and never
\* a moderated model when allowModerated is false; when the model the name
\* denotes is both paid and moderated and the policy allows neither, the
\* error is prohibit_paid.
C11_PolicyRespected ==
  /\ ResolveReturned =>
       /\ call.result.model \in Catalogued
       /\ IsPaid(call.result.model) => call.arg.config.allowPaid
       /\ call.result.model.is_moderated => call.arg.config.allowModerated
  /\ ( /\ ResolveDone
       /\ ~Denoted.threw /\ Denoted.error = ""
       /\ IsPaid(Denoted.model) /\ Denoted.model.is_moderated
       /\ ~call.arg.config.allowPaid /\ ~call.arg.config.allowModerated )
     => call.result.error = "prohibit_paid"

\* claude, paid and moderated, was asked for under a policy that allows neither
C11_Witness ==
  /\ ResolveDone
  /\ call.arg.userInput = I_claude
  /\ \E i \in 1..Len(call.arg.data) : call.arg.data[i].id = M_claude
  /\ ~call.arg.config.allowPaid /\ ~call.arg.config.allowModerated
  /\ call.result.error = "prohibit_paid"


\* the catalogued models whose full id is the input, letter case apart
ExactlyNamed ==
  {m \in Catalogued : ToLowerCase(m.id) = ToLowerCase(call.arg.userInput)}

\* C12: when the input is, case-insensitively, the full id of a catalogued
\* model, resolve does not throw and does not fail with not_found or
\* ambiguous: it returns a model of that id, or a policy error that such a
\* model deserves, whatever else the catalogue lists.
C12_ExactMatchWins ==
  ResolveDone /\ ExactlyNamed # {} =>
    /\ ~call.result.threw
    /\ call.result.error \in {"", "prohibit_paid", "prohibit_moderated"}
    /\ call.result.error = "" => call.result.model \in ExactlyNamed
    /\ call.result.error = "prohibit_paid" =>
         \E m \in ExactlyNamed : IsPaid(m) /\ ~call.arg.config.allowPaid
    /\ call.result.error = "prohibit_moderated" =>
         \E m \in ExactlyNamed : m.is_moderated /\ ~call.arg.config.allowModerated

\* OpenAI/GPT-4o was asked for and openai/gpt-4o returned, from a catalogue
\* that also lists gpt-4o-mini
C12_Witness ==
  /\ ResolveReturned
  /\ call.arg.userInput = I_exactUpper
  /\ call.result.model.id = M_gpt4o
  /\ \E i \in 1..Len(call.arg.data) : call.arg.data[i].id = M_gpt4oMini


\* the lower-cased input of the call and the provider prefix detected in it
InputLow == ToLowerCase(call.arg.userInput)
DetectedPrefix == ProviderPrefix(InputLow)

\* the catalogued models that pass the prefix test
PrefixPassing == {m \in Catalogued : PassesPrefix(m, DetectedPrefix)}

\* the id has a suffix after a slash
HasSuffix(m) == SecondSegment(ToLowerCase(m.id)) # Undefined

\* the candidate set: the models that pass the prefix test and whose suffix
\* after the slash is, contains, or after normalization is the input
CandidateSet ==
  {m \in PrefixPassing : HasSuffix(m) /\ IsCandidate(m, DetectedPrefix, InputLow)}

\* the candidates that match by exact suffix, and by normalized suffix
SuffixMatches ==
  {m \in CandidateSet : ToLowerCase(SecondSegment(m.id)) = InputLow}
NormalMatches ==
  {m \in CandidateSet : Normalize(SecondSegment(m.id)) = Normalize(InputLow)}

\* no exact id match, and no candidate or several without a tiebreak
NoMatchCase ==
  /\ ResolveDone
  /\ ExactlyNamed = {}
  /\ \/ CandidateSet = {}
     \/ /\ Cardinality(CandidateSet) >= 2
        /\ SuffixMatches = {} /\ NormalMatches = {}

\* C13 as claimed: without an exact id match, an empty candidate set and a
\* candidate set of several members without a tiebreak both end in no model
\* and the error kind ambiguous.
C13_NoMatchIsAmbiguous ==
  NoMatchCase =>
    /\ ~call.result.threw
    /\ call.result.model = NoModelData
    /\ call.result.error = "ambiguous"

\* C13 as amended: without an exact id match, an empty candidate set and a
\* candidate set of several members without a tiebreak both end in no model
\* and the error kind not_found; when a catalogued id that passes the prefix
\* test has no "/", the call throws a TypeError instead.
C13_NoMatchIsNotFound ==
  NoMatchCase =>
    /\ call.result.model = NoModelData
    /\ IF \A m \in PrefixPassing : HasSuffix(m)
       THEN ~call.result.threw /\ call.result.error = NOT_FOUND
       ELSE call.result.threw

\* "gpt" was asked for from a catalogue that lists gpt-4o and gpt-4o-mini:
\* two candidates, neither a best match, and the answer is not_found
C13_Witness ==
  /\ NoMatchCase
  /\ call.arg.userInput = I_gpt
  /\ Cardinality(CandidateSet) >= 2
  /\ call.result.error = NOT_FOUND


\* the set the strict order chooses from: the exact-suffix matches, else the
\* normalized-suffix matches, else the sole candidate, else nothing
StrictOrderChoice ==
  IF SuffixMatches # {} THEN SuffixMatches
  ELSE IF NormalMatches # {} THEN NormalMatches
  ELSE IF Cardinality(CandidateSet) = 1 THEN CandidateSet
  ELSE {}

\* C14: without an exact id match the model resolve settles on is taken in
\* the strict order exact suffix, normalized suffix, sole candidate: a
\* returned model is one of that choice, a policy error is one that a model
\* of that choice deserves; and "gpt-4o" with allowPaid returns openai/gpt-4o
\* from every catalogue that lists it, whatever gpt-4o variants it also lists.
C14_StrictOrder ==
  /\ ( /\ ResolveDone /\ ExactlyNamed = {} /\ ~call.result.threw ) =>
       /\ call.result.error = "" => call.result.model \in StrictOrderChoice
       /\ call.result.error = "prohibit_paid" =>
            \E m \in StrictOrderChoice : IsPaid(m) /\ ~call.arg.config.allowPaid
       /\ call.result.error = "prohibit_moderated" =>
            \E m \in StrictOrderChoice :
               m.is_moderated /\ ~call.arg.config.allowModerated
       /\ call.result.error = NOT_FOUND => StrictOrderChoice = {}
  /\ ( /\ ResolveDone
       /\ call.arg.userInput = I_gpt4o
       /\ call.arg.config.allowPaid
       /\ \E m \in Catalogued : m.id = M_gpt4o ) =>
       /\ ~call.result.threw /\ call.result.error = ""
       /\ call.result.model.id = M_gpt4o

\* "gpt-4o" returned openai/gpt-4o from a catalogue that lists gpt-4.o and
\* gpt-4o-mini before it
C14_Witness ==
  /\ ResolveReturned
  /\ call.arg.userInput = I_gpt4o
  /\ Len(call.arg.data) = 3
  /\ call.arg.data[1].id = M_gpt4dotO
  /\ call.arg.data[2].id = M_gpt4oMini
  /\ call.arg.data[3].id = M_gpt4o
  /\ call.result.model.id = M_gpt4o

---------------------------------------------------------------------------
(* Properties of the catalogue *)

\* the errors resolveOpenRouterModel raises on purpose: the resolution and
\* policy errors of resolveModel, and the context limit
ResolutionErrors == {NOT_FOUND, "prohibit_paid", "prohibit_moderated", "context"}

\* C15: a failed catalogue fetch is not propagated: a request that names a
\* model and ends in resolveOpenRouterModel, whatever fetches failed before
\* it, ends with a resolution error and with no other exception.
C15_FetchFailureNotPropagated ==
  ( /\ req.pc = "failed" /\ req.selects = 0
    /\ req.sent # Undefined )
  => req.error \in ResolutionErrors


\* C16: catalogue refresh is single-flight: whatever callers of
\* refreshModels were started while the cache is empty or expired, at most
\* one upstream fetch is in flight at any time.
C16_SingleFlight == Cardinality(fetching) <= 1

---------------------------------------------------------------------------
(* Properties of the store's start and of recheck *)

\* every credential has the tier data the constructor gave it
AllDefaultTier(ks) ==
  \A k \in Keys : /\ ks[k].tier = "restricted" /\ ks[k].balance = 0
                  /\ ks[k].isFreeTier /\ ks[k].creditLimit = 0

\* every credential has the tier data init() forces without key checking
AllUnlimited(ks) ==
  \A k \in Keys : ks[k].tier = "unlimited" /\ ks[k].balance = UNLIMITED_BALANCE

\* what a get() that this step made must have ended in, given that a paid
\* target can be served (paidOk) or not
SelectEnds(paidOk) ==
  ret'.op = "get" =>
    IF ActiveKeys(keys) = {} \/ (~IsFreeModel(ret'.model) /\ ~paidOk)
    THEN ret'.kind = "throw" /\ ret'.error = "PaymentRequiredError"
    ELSE ret'.kind = "return" /\ ~keys[KeyOf(ret'.hash)].isDisabled

---------------------------------------------------------------------------
(* The store under a clock that advances: probes, disable and recheck *)

InitClock == Init

NextClock ==
  \/ Tick
  \/ \E k \in Keys, p \in StoreProbeResults : CheckKey(k, p[1], p[2])
  \/ \E k \in Keys : Disable(k)
  \/ Recheck

SpecClock == InitClock /\ [][NextClock]_vars

\* C18: recheck() sets isDisabled = false on exactly the credentials that
\* were disabled and not revoked and changes no other field of any
\* credential: not tier, balance, lastChecked, lastUsed, rateLimitedUntil or
\* the usage counters; revoked credentials stay disabled and revoked.
C18_RecheckFrame ==
  [][ret'.op = "recheck" =>
       \A k \in Keys :
          keys'[k] = IF keys[k].isDisabled /\ ~keys[k].isRevoked
                     THEN [keys[k] EXCEPT !.isDisabled = FALSE]
                     ELSE keys[k]]_vars

---------------------------------------------------------------------------
(* Usage accounting interleaved with selection and probes *)

MaxUsageCalls == 3

\* a hash that no key has
UnknownHash == 0

UsageHashes == {HashOf(k) : k \in Keys} \cup {UnknownHash}
UsageModels == {M_gpt4o, M_llamaFree, <<>>}
UsageTokens == {[input |-> 3, output |-> 5], [input |-> 0, output |-> 2]}

Families ==
  {OPENROUTER_FAMILY_MAP[i].family : i \in 1..Len(OPENROUTER_FAMILY_MAP)}
  \cup {OTHER_FAMILY}

\* the tokens recorded so far, per hash and family
NoLedger ==
  [h \in {HashOf(k) : k \in Keys} |->
     [f \in Families |-> [input |-> 0, output |-> 0]]]

\* the probe answers of the usage specification: one that enables the key
\* for paid models and one that kills it
UsageProbeResults ==
  {p \in StoreProbeResults :
     \/ p[1].status = "rejected" /\ p[1].http = 402
     \/ /\ p[1].status = "fulfilled" /\ p[1].hasData
        /\ p[1].data.limit = Null /\ p[2].status = "fulfilled" /\ p[2].total = 5}

InitUsage ==
  /\ InitStore
  /\ call = [fn |-> "incrementUsage", done |-> FALSE, arg |-> 0,
             result |-> NoLedger]
  /\ InitCatalogue
  /\ policy = DefaultPolicy
  /\ req = NoReq

\* incrementUsage(keyHash, model, tokens) is called; call.result keeps the
\* sums of what was recorded for the keys there are, call.arg the calls made
RecordUsage(keyHash, model, tokens) ==
  /\ call.fn = "incrementUsage" /\ call.arg < MaxUsageCalls
  /\ keys' = IncrementUsage(keys, keyHash, model, tokens)
  /\ ret' = [Did("incrementUsage") EXCEPT !.hash = keyHash, !.model = model]
  /\ call' = [call EXCEPT
       !.arg = @ + 1,
       !.result = IF keyHash \in DOMAIN call.result
                  THEN [@ EXCEPT ![keyHash][GetOpenRouterModelFamily(model)] =
                          [input |-> @.input + tokens.input,
                           output |-> @.output + tokens.output]]
                  ELSE @]
  /\ UNCHANGED <<now, checkKeys, catalogueVars, policy, req>>

NextUsage ==
  \/ \E h \in UsageHashes, m \in UsageModels, t \in UsageTokens :
       RecordUsage(h, m, t)
  \/ \E m \in GetModels : Get(m)
  \/ \E k \in Keys, p \in UsageProbeResults : CheckKey(k, p[1], p[2])

SpecUsage == InitUsage /\ [][NextUsage]_vars

\* C19: whatever incrementUsage calls, selections and probe updates
\* happened, each key's per-family input and output counters are the sums of
\* the tokens recorded for that key and family, a family without an entry
\* having nothing recorded; and an incrementUsage with an unknown hash
\* changes no key.
C19_UsageIsSumOfRecorded ==
  /\ [](\A k \in Keys, f \in Families :
          IF f \in DOMAIN keys[k].tokenUsage
          THEN keys[k].tokenUsage[f] = call.result[keys[k].hash][f]
          ELSE call.result[keys[k].hash][f] = [input |-> 0, output |-> 0])
  /\ [](\A k \in Keys : DOMAIN keys[k].tokenUsage \subseteq Families)
  /\ [][(ret'.op = "incrementUsage" /\ ret'.hash = UnknownHash) =>
          keys' = keys]_vars

\* a key selected and probed in between has the sum of two recordings for
\* one family, and a recording with an unknown hash was made last
C19_Witness ==
  /\ call.fn = "incrementUsage" /\ call.arg = 3
  /\ ret.op = "incrementUsage" /\ ret.hash = UnknownHash
  /\ \E k \in Keys :
        /\ OTHER_FAMILY \in DOMAIN keys[k].tokenUsage
        /\ keys[k].tokenUsage[OTHER_FAMILY] = [input |-> 3, output |-> 7]
        /\ keys[k].rateLimitedUntil > 0
        /\ checkKeys /\ keys[k].tier = "unlimited"

---------------------------------------------------------------------------
(* The request transformers between the OpenAI and the Google AI shape.   *)
(* Texts are sequences of characters; a missing or empty string is <<>>.  *)

WhiteSpace == {" ", "\n", "\t"}

\* String.prototype.trim
RECURSIVE Trim(_)
Trim(s) ==
  IF s = <<>> THEN s
  ELSE IF Head(s) \in WhiteSpace THEN Trim(Tail(s))
  ELSE IF s[Len(s)] \in WhiteSpace THEN Trim(SubSeq(s, 1, Len(s) - 1))
  ELSE s

\* the longest name the pattern of a name in the text takes
MAX_NAME == 50

\* text.match(/^(.{0,50}?): /)?.[1]?.trim(): the shortest start of the text,
\* without a line break, that ": " follows; <<>> without a match
TextNameOf(text) ==
  LET ends == {i \in 0..MAX_NAME :
                 /\ i + 2 <= Len(text)
                 /\ text[i + 1] = ":" /\ text[i + 2] = " "
                 /\ \A j \in 1..i : text[j] # "\n"}
  IN IF ends = {} THEN <<>>
     ELSE Trim(SubSeq(text, 1, CHOOSE i \in ends : \A j \in ends : i <= j))

\* flattenOpenAIMessageContent of a content that is a string
FlattenOpenAIMessageContent(content) == content

\* the Google AI role of an OpenAI role
GoogleRole(role) == IF role = "assistant" THEN "model" ELSE "user"

N_Character == <<"C", "h", "a", "r", "a", "c", "t", "e", "r">>
N_User == <<"U", "s", "e", "r">>

\* the name of a message: its name property, else the name in its text
\* (never for a system message), else the default of its role
MessageName(m) ==
  LET text == FlattenOpenAIMessageContent(m.content)
      propName == Trim(m.name)
      textName == IF m.role = "system" THEN <<>> ELSE TextNameOf(text)
  IN IF propName # <<>> THEN propName
     ELSE IF textName # <<>> THEN textName
     ELSE IF GoogleRole(m.role) = "model" THEN N_Character ELSE N_User

\* the content one message maps to: the text, after "<name>: " when the text
\* names nobody
MessageContent(m) ==
  LET text == FlattenOpenAIMessageContent(m.content)
      textName == IF m.role = "system" THEN <<>> ELSE TextNameOf(text)
      textPrefix == IF textName # <<>> THEN <<>>
                    ELSE MessageName(m) \o <<":", " ">>
  IN [parts |-> <<[text |-> textPrefix \o text]>>, role |-> GoogleRole(m.role)]

\* a reduce that merges nothing
MergeContentsKeepAll(acc, contents) == acc \o contents

\* the reduce over the mapped messages: a message of the role of the last
\* one is appended to its text after a blank line
RECURSIVE MergeContents(_, _)
MergeContents(acc, contents) ==
  IF contents = <<>> THEN acc
  ELSE LET msg == Head(contents)
           n == Len(acc)
       IN IF n > 0 /\ acc[n].role = msg.role
          THEN MergeContents(
                 [acc EXCEPT ![n].parts[1].text =
                    @ \o <<"\n", "\n">> \o msg.parts[1].text],
                 Tail(contents))
          ELSE MergeContents(Append(acc, msg), Tail(contents))

\* [...new Set(seq)]: the distinct elements in the order of first occurrence
RECURSIVE Distinct(_, _)
Distinct(seq, seen) ==
  IF seq = <<>> THEN <<>>
  ELSE IF Head(seq) \in seen THEN Distinct(Tail(seq), seen)
  ELSE <<Head(seq)>> \o Distinct(Tail(seq), seen \cup {Head(seq)})

\* the most stop sequences a Google AI request carries
MAX_STOPS == 5

\* stopSequences without the Set: repetitions stay
StopSequencesRepeating(stop, messages) ==
  LET names == Distinct([i \in 1..Len(messages) |-> MessageName(messages[i])], {})
      added == [i \in 1..Len(names) |-> <<"\n">> \o names[i] \o <<":">>]
      all == stop \o added
  IN SubSeq(all, 1, IF Len(all) < MAX_STOPS THEN Len(all) ELSE MAX_STOPS)

\* stopSequences: the caller's stops, then "\n<name>:" for each name found,
\* without repetitions, the first five
StopSequences(stop, messages) ==
  LET names == Distinct([i \in 1..Len(messages) |-> MessageName(messages[i])], {})
      added == [i \in 1..Len(names) |-> <<"\n">> \o names[i] \o <<":">>]
      all == Distinct(stop \o added, {})
  IN SubSeq(all, 1, IF Len(all) < MAX_STOPS THEN Len(all) ELSE MAX_STOPS)

\* A thinking configuration: whether there is one, which of its two fields
\* it has, and their values; thinkingBudget is "auto" (auto) or an integer.
NoThinkingConfig ==
  [present |-> FALSE, fields |-> {}, includeThoughts |-> FALSE, auto |-> FALSE,
   thinkingBudget |-> 0]

\* body.generationConfig?.thinkingConfig || body.thinkingConfig
ThinkingConfigOf(body) ==
  IF body.generationConfig.thinkingConfig.present
  THEN body.generationConfig.thinkingConfig
  ELSE body.thinkingConfig

\* transformOpenAIToGoogleAI(req), for a body the OpenAI schema accepts
TransformOpenAIToGoogleAI(body) ==
  [model |-> body.model,
   contents |-> MergeContents(<<>>,
                  [i \in 1..Len(body.messages) |-> MessageContent(body.messages[i])]),
   generationConfig |-> [stopSequences |-> StopSequences(body.stop, body.messages),
                         thinkingConfig |-> ThinkingConfigOf(body)],
   systemInstruction |-> body.systemInstruction]


\* no system instruction in the body
NoInstruction == <<>>

\* parts.map(p => p.text).join("")
RECURSIVE JoinTexts(_)
JoinTexts(parts) ==
  IF parts = <<>> THEN <<>> ELSE Head(parts).text \o JoinTexts(Tail(parts))

\* the text parts of a content that are not empty
RECURSIVE TextParts(_)
TextParts(parts) ==
  IF parts = <<>> THEN <<>>
  ELSE IF Head(parts).text # <<>> THEN <<Head(parts)>> \o TextParts(Tail(parts))
  ELSE TextParts(Tail(parts))

\* the OpenAI role of a Google AI role
OpenAIRole(role) == IF role = "model" THEN "assistant" ELSE "user"

\* the messages of the contents: one per content that has a text, its
\* content the text itself when that is its only part, else the parts
RECURSIVE ContentMessages(_)
ContentMessages(contents) ==
  IF contents = <<>> THEN <<>>
  ELSE LET msg == Head(contents)
           content == TextParts(msg.parts)
           rest == ContentMessages(Tail(contents))
       IN IF Len(content) = 1
          THEN <<[role |-> OpenAIRole(msg.role), content |-> content[1].text,
                  blocks |-> <<>>]>> \o rest
          ELSE IF Len(content) > 0
          THEN <<[role |-> OpenAIRole(msg.role), content |-> <<>>,
                  blocks |-> content]>> \o rest
          ELSE rest

\* The reasoning of a chat completion request: the fields it has and their
\* values; without a field it is undefined.
NoReasoning == [fields |-> {}, max_tokens |-> 0, exclude |-> FALSE]

\* a reasoning that is excluded whenever no budget caps it
ReasoningExcludedWithoutBudget(thinkingConfig) ==
  IF /\ thinkingConfig.present
     /\ "includeThoughts" \in thinkingConfig.fields
     /\ thinkingConfig.includeThoughts
     /\ "thinkingBudget" \in thinkingConfig.fields /\ ~thinkingConfig.auto
  THEN [NoReasoning EXCEPT !.fields = {"max_tokens"},
                           !.max_tokens = thinkingConfig.thinkingBudget]
  ELSE [NoReasoning EXCEPT !.fields = {"exclude"}, !.exclude = TRUE]

\* reasoning, l.283-304: the budget as max_tokens when thoughts are included
\* and the budget is a number, nothing when they are included without such a
\* budget, exclude otherwise
Reasoning(thinkingConfig) ==
  IF /\ thinkingConfig.present
     /\ "includeThoughts" \in thinkingConfig.fields
     /\ thinkingConfig.includeThoughts
  THEN IF "thinkingBudget" \in thinkingConfig.fields /\ ~thinkingConfig.auto
       THEN [NoReasoning EXCEPT !.fields = {"max_tokens"},
                                !.max_tokens = thinkingConfig.thinkingBudget]
       ELSE NoReasoning
  ELSE [NoReasoning EXCEPT !.fields = {"exclude"}, !.exclude = TRUE]

\* transformGoogleAIToOpenAI(req), for a body the Google AI schema accepts
TransformGoogleAIToOpenAI(body) ==
  LET sysText == JoinTexts(body.systemInstruction)
      system == IF sysText # <<>>
                THEN <<[role |-> "system", content |-> sysText, blocks |-> <<>>]>>
                ELSE <<>>
  IN [model |-> body.model,
      messages |-> system \o ContentMessages(body.contents),
      stop |-> body.generationConfig.stopSequences,
      reasoning |-> Reasoning(body.generationConfig.thinkingConfig)]

---------------------------------------------------------------------------
(* The round trip of a request through both transformers *)

MaxMessages == 3

T_hi == <<"h", "i">>
T_bobYo == <<"B", "o", "b", ":", " ", "y", "o">>
N_al == <<"A", "l">>
S_end == <<"E", "N", "D">>

S_alStop == <<"\n", "A", "l", ":">>

\* the stop of a chat completion request, a single string being the array
\* of it: none, one, one given twice, one that a name will yield again, four
\* and six
CallerStops ==
  {<<>>, <<S_end>>, <<S_end, S_end>>, <<S_alStop, S_end>>,
   <<<<"1">>, <<"2">>, <<"3">>, <<"4">>>>,
   <<<<"1">>, <<"2">>, <<"3">>, <<"4">>, <<"5">>, <<"6">>>>}

\* thoughts included, with a budget of 1024 tokens
ThinkingCapped ==
  [present |-> TRUE, fields |-> {"includeThoughts", "thinkingBudget"},
   includeThoughts |-> TRUE, auto |-> FALSE, thinkingBudget |-> 1024]

\* the messages of a chat completion request
ChatMessages ==
  [role : {"system", "user", "assistant"}, content : {T_hi, T_bobYo},
   name : {<<>>, N_al}]

ChatBodies ==
  [model : {M_gpt4o},
   messages : UNION {[1..n -> ChatMessages] : n \in 0..MaxMessages},
   stop : CallerStops,
   generationConfig : {[thinkingConfig |-> NoThinkingConfig]},
   thinkingConfig : {NoThinkingConfig, ThinkingCapped},
   systemInstruction : {NoInstruction}]

InitTransform ==
  /\ InitStore
  /\ checkKeys
  /\ call \in [fn : {"roundTrip"}, done : {FALSE}, arg : ChatBodies,
               result : {<<>>}]
  /\ InitCatalogue
  /\ policy = DefaultPolicy
  /\ req = NoReq

\* the request goes to the Google AI shape ...
ToGoogleAI ==
  /\ call.fn = "roundTrip" /\ ~call.done /\ call.result = <<>>
  /\ call' = [call EXCEPT !.result = <<TransformOpenAIToGoogleAI(call.arg)>>]
  /\ UNCHANGED <<storeVars, catalogueVars, policy, req>>

\* ... and what came of it back to the OpenAI shape
BackToOpenAI ==
  /\ call.fn = "roundTrip" /\ ~call.done /\ Len(call.result) = 1
  /\ call' = [call EXCEPT
       !.done = TRUE,
       !.result = Append(@, TransformGoogleAIToOpenAI(call.result[1]))]
  /\ UNCHANGED <<storeVars, catalogueVars, policy, req>>

NextTransform == ToGoogleAI \/ BackToOpenAI

SpecTransform == InitTransform /\ [][NextTransform]_vars


---------------------------------------------------------------------------
(* Properties of the round trip *)

RoundTripDone == call.fn = "roundTrip" /\ call.done

\* the back text is the original text, possibly after an added "<name>: "
SameTextUpToPrefix(back, orig) ==
  /\ EndsWith(back, orig)
  /\ LET added == SubSeq(back, 1, Len(back) - Len(orig))
     IN added = <<>> \/ EndsWith(added, <<":", " ">>)

\* the caller's stop sequences, each once and five at most, are still the
\* first ones and in their order
StopsOnlyAdded(back, orig) ==
  LET kept == {i \in 1..Len(orig) : \A j \in 1..(i - 1) : orig[j] # orig[i]}
      n == IF Cardinality(kept) < MAX_STOPS THEN Cardinality(kept) ELSE MAX_STOPS
  IN /\ Len(back) >= n
     /\ \A i \in 1..n :
          \E k \in kept : /\ back[i] = orig[k]
                         /\ Cardinality({j \in kept : j < k}) = i - 1

\* the role a message comes back with
ReturnRole(role) == IF role = "system" THEN "user" ELSE role

\* the run of consecutive messages of one returning role that message i
\* belongs to
RunOf(msgs, i) ==
  1 + Cardinality({j \in 2..i :
                     ReturnRole(msgs[j].role) # ReturnRole(msgs[j - 1].role)})

\* C20 as claimed: the round trip through transformOpenAIToGoogleAI and
\* transformGoogleAIToOpenAI yields the same sequence of roles and the same
\* texts, up to added name prefixes and stop sequences, for every sequence
\* of messages with roles system, user and assistant.
C20_RoundTripPreserves ==
  RoundTripDone =>
    LET orig == call.arg.messages
        back == call.result[2].messages
    IN /\ Len(back) = Len(orig)
       /\ \A i \in 1..Len(orig) :
            /\ back[i].role = orig[i].role
            /\ SameTextUpToPrefix(back[i].content, orig[i].content)
       /\ StopsOnlyAdded(call.result[2].stop, call.arg.stop)

\* C20 as amended: the round trip yields one message per run of consecutive
\* messages that share a role once system counts as user; it has that role
\* and contains the text of every message of the run; the caller's stop
\* sequences stay first.  When no message is a system message and no two
\* consecutive messages share a role, roles and texts are the original ones
\* up to the added name prefixes.
C20_RoundTripMerges ==
  RoundTripDone =>
    LET orig == call.arg.messages
        back == call.result[2].messages
    IN /\ Len(back) = IF orig = <<>> THEN 0 ELSE RunOf(orig, Len(orig))
       /\ \A i \in 1..Len(orig) :
            /\ back[RunOf(orig, i)].role = ReturnRole(orig[i].role)
            /\ Includes(back[RunOf(orig, i)].content, orig[i].content)
       /\ StopsOnlyAdded(call.result[2].stop, call.arg.stop)
       /\ ( /\ \A i \in 1..Len(orig) : orig[i].role # "system"
            /\ \A i \in 2..Len(orig) : orig[i].role # orig[i - 1].role )
          => /\ Len(back) = Len(orig)
             /\ \A i \in 1..Len(orig) :
                  /\ back[i].role = orig[i].role
                  /\ SameTextUpToPrefix(back[i].content, orig[i].content)

\* a system message and a user message came back as one user message, the
\* assistant's answer after them as its own
C20_Witness ==
  /\ RoundTripDone
  /\ Len(call.arg.messages) = 3
  /\ call.arg.messages[1].role = "system"
  /\ call.arg.messages[2].role = "user"
  /\ call.arg.messages[3].role = "assistant"
  /\ Len(call.result[2].messages) = 2
  /\ call.result[2].messages[1].role = "user"
  /\ call.result[2].messages[2].role = "assistant"


---------------------------------------------------------------------------
(* The stop sequences of a Google AI request *)

ToGoogleAIDone == call.fn = "roundTrip" /\ Len(call.result) >= 1

\* the stop sequences that the names of the messages yield
Synthesized(messages) ==
  {<<"\n">> \o MessageName(messages[i]) \o <<":">> : i \in 1..Len(messages)}

Elements(seq) == {seq[i] : i \in 1..Len(seq)}

\* C21: the stop sequences transformOpenAIToGoogleAI produces are five at
\* most, no two of them are equal, each is a stop sequence of the caller or
\* "\n<name>:" for the name of a message, none is left out while there are
\* fewer than five, and the caller's come before the ones the names yield.
C21_StopSequences ==
  ToGoogleAIDone =>
    LET out == call.result[1].generationConfig.stopSequences
        caller == Elements(call.arg.stop)
        all == caller \cup Synthesized(call.arg.messages)
    IN /\ Len(out) <= 5
       /\ \A i, j \in 1..Len(out) : i # j => out[i] # out[j]
       /\ Elements(out) \subseteq all
       /\ Len(out) = IF Cardinality(all) < 5 THEN Cardinality(all) ELSE 5
       /\ \A i, j \in 1..Len(out) :
            i < j /\ out[j] \in caller => out[i] \in caller

\* four stop sequences of the caller and three names: the fifth stop sequence
\* is one of a name, the others of the names are cut off
C21_Witness ==
  /\ ToGoogleAIDone
  /\ LET out == call.result[1].generationConfig.stopSequences
         caller == Elements(call.arg.stop)
     IN /\ Len(out) = 5
        /\ out[5] \notin caller
        /\ Cardinality(Synthesized(call.arg.messages) \ caller) = 3


---------------------------------------------------------------------------
(* The tier a successful probe writes *)

ProbeSucceeded == ret.op = "checkKey" /\ ret.status = 200 /\ call.done

\* C22: after a successful probe the key carries the limit, the usage and the
\* free-tier flag of the answer, and its tier is deadkey if creditLimit is
\* not null and usage >= creditLimit; else unlimited if balance > 0 and
\* creditLimit is null; else limited if balance > 0; else restricted if
\* isFreeTier; else deadkey.  isDisabled is (tier = deadkey) and isRevoked is
\* false, whatever they were.
C22_TierWritten ==
  ProbeSucceeded =>
    LET key == keys[KeyOf(ret.hash)]
        data == ret.answer[1].data
    IN /\ key.creditLimit = data.limit
       /\ key.usage = data.usage
       /\ key.isFreeTier = data.is_free_tier
       /\ key.tier =
            IF key.creditLimit # Null /\ key.usage >= key.creditLimit
            THEN "deadkey"
            ELSE IF key.balance > 0 /\ key.creditLimit = Null THEN "unlimited"
            ELSE IF key.balance > 0 THEN "limited"
            ELSE IF key.isFreeTier THEN "restricted"
            ELSE "deadkey"
       /\ key.isDisabled = (key.tier = "deadkey")
       /\ ~key.isRevoked

\* a revoked key with credits left and its limit reached is probed: it is
\* dead and disabled, and revoked no more
C22_Witness ==
  /\ ProbeSucceeded
  /\ LET key == keys[KeyOf(ret.hash)]
     IN /\ key.creditLimit # Null /\ key.usage >= key.creditLimit
        /\ key.balance > 0
        /\ key.tier = "deadkey" /\ key.isDisabled /\ ~key.isRevoked
  /\ call.result = <<ret.hash>>


---------------------------------------------------------------------------
(* The store under a clock that advances: selection and lockouts too *)

\* the answers the probes give here: credits and no limit, or a 401
ThrottleProbeResults ==
  {p \in StoreProbeResults :
     IF p[1].status = "rejected" THEN p[1].http = 401
     ELSE p[1].data.limit = Null /\ p[2].total = 5}

InitThrottle == Init

NextThrottle ==
  \/ Tick
  \/ \E m \in GetModels : Get(m)
  \/ \E k \in Keys : MarkRateLimited(k)
  \/ \E k \in Keys, p \in ThrottleProbeResults : CheckKey(k, p[1], p[2])
  \/ \E k \in Keys : Disable(k)
  \/ Recheck

SpecThrottle == InitThrottle /\ [][NextThrottle]_vars

\* C23: when get() returns a key at time now, the store's entry for it and
\* the returned copy both have lastUsed = now and rateLimitedUntil = the
\* larger of what it was and now + KEY_REUSE_DELAY (500 ms), and every other
\* key is as it was.
C23_SelectMutatesBeforeHandOver ==
  [][ret'.op = "get" /\ ret'.kind = "return" =>
       LET c == KeyOf(ret'.hash)
           until == IF keys[c].rateLimitedUntil > now + 500
                    THEN keys[c].rateLimitedUntil ELSE now + 500
       IN /\ keys'[c].lastUsed = now
          /\ keys'[c].rateLimitedUntil = until
          /\ ret'.key = keys'[c]
          /\ keys'[c] = [keys[c] EXCEPT !.lastUsed = now,
                                        !.rateLimitedUntil = until]
          /\ \A k \in Keys \ {c} : keys'[k] = keys[k]]_vars

\* a key locked out for longer than the reuse delay was returned after the
\* clock had advanced: it carries the time of the call and the old lockout
C23_Witness ==
  /\ GetReturned
  /\ now > 0
  /\ ret.key.lastUsed = now
  /\ ret.key.rateLimitedUntil > now + KEY_REUSE_DELAY
  /\ keys[KeyOf(ret.hash)] = ret.key

\* C24: while the clock does not go back, no step of the store (get with its
\* throttle, markRateLimited, a probe, disable, recheck) lowers the
\* rateLimitedUntil of a key.
C24_RateLimitedUntilNeverDecreases ==
  [][now' >= now =>
       \A k \in Keys : keys'[k].rateLimitedUntil >= keys[k].rateLimitedUntil]_vars

\* a key locked out by markRateLimited was selected later, when the end of its
\* reuse delay lay before the end of the lockout, and probed since
C24_Witness ==
  /\ ret.op = "checkKey"
  /\ \E k \in Keys :
       /\ keys[k].lastUsed > 0
       /\ keys[k].lastChecked >= keys[k].lastUsed
       /\ keys[k].rateLimitedUntil = RATE_LIMIT_LOCKOUT
       /\ keys[k].lastUsed + KEY_REUSE_DELAY < keys[k].rateLimitedUntil


---------------------------------------------------------------------------
(* The requests per minute a probe writes *)

\* C25: for a quota of `requests` per `interval` seconds (interval >= 1) in
\* the answer of the key lookup, the rpm a successful probe writes is the rate
\* per minute rounded down, floor(requests * 60 / interval): 10 requests per
\* 60 s give 10.
C25_RpmIsRatePerMinute ==
  ProbeSucceeded =>
    LET rate == ret.answer[1].data.rate_limit
    IN rate.present /\ rate.interval >= 1 =>
         keys[KeyOf(ret.hash)].rpm = (rate.requests * 60) \div rate.interval


---------------------------------------------------------------------------
(* Every operation of the store, under a fixed clock *)

\* the answers of the probes here: every failure, and credits without a limit
FrameProbeResults ==
  {p \in StoreProbeResults :
     p[1].status = "rejected" \/ (p[1].data.limit = Null /\ p[2].total = 5)}

InitFrame == InitUsage

NextFrame ==
  \/ \E h \in UsageHashes : RecordUsage(h, M_gpt4o, [input |-> 3, output |-> 5])
  \/ \E m \in GetModels : Get(m)
  \/ \E k \in Keys : MarkRateLimited(k)
  \/ \E k \in Keys, p \in FrameProbeResults : CheckKey(k, p[1], p[2])
  \/ \E k \in Keys : Disable(k)
  \/ Recheck

SpecFrame == InitFrame /\ [][NextFrame]_vars

\* the fields of a key that the probes do not own
SameUse(a, b) ==
  /\ a.lastUsed = b.lastUsed
  /\ a.rateLimitedUntil = b.rateLimitedUntil
  /\ a.promptCount = b.promptCount
  /\ a.tokenUsage = b.tokenUsage

\* C26: no step changes the hash of a key; no probe, successful or failed,
\* changes the lastUsed, rateLimitedUntil, promptCount or token counters of
\* any key; and a step that changes one of these is a get (with its
\* throttle), a markRateLimited or an incrementUsage.
C26_ProbeFrame ==
  [][/\ \A k \in Keys : keys'[k].hash = keys[k].hash
     /\ ret'.op = "checkKey" => \A k \in Keys : SameUse(keys'[k], keys[k])
     /\ (\E k \in Keys : ~SameUse(keys'[k], keys[k]))
          => ret'.op \in {"get", "markRateLimited", "incrementUsage"}]_vars

\* a key that was used, locked out and counted was probed with success and
\* still is what it was in these fields
C26_Witness ==
  /\ ret.op = "checkKey" /\ ret.status = 200
  /\ LET key == keys[KeyOf(ret.hash)]
     IN /\ key.rateLimitedUntil = RATE_LIMIT_LOCKOUT
        /\ key.promptCount = 2
        /\ OPENROUTER_FAMILY_MAP[1].family \in DOMAIN key.tokenUsage
        /\ key.lastChecked = now
        /\ key.tier = "unlimited"


---------------------------------------------------------------------------
(* transformGoogleAIToOpenAI over Google AI requests *)

Budgets == {0, 1024}

\* the thinking configurations the schema accepts: none, or one with either,
\* both or none of includeThoughts (a boolean) and thinkingBudget ("auto" or
\* an integer)
ThinkingConfigs ==
  {NoThinkingConfig} \cup
  {c \in [present : {TRUE},
          fields : SUBSET {"includeThoughts", "thinkingBudget"},
          includeThoughts : BOOLEAN, auto : BOOLEAN,
          thinkingBudget : Budgets] :
     /\ "includeThoughts" \notin c.fields => ~c.includeThoughts
     /\ "thinkingBudget" \notin c.fields => ~c.auto
     /\ ("thinkingBudget" \notin c.fields \/ c.auto) => c.thinkingBudget = 0}

GoogleContents ==
  [role : {"user", "model"}, parts : {<<[text |-> T_hi]>>}]

GoogleBodies ==
  [model : {M_gpt4o},
   contents : UNION {[1..n -> GoogleContents] : n \in 0..2},
   generationConfig : [stopSequences : {<<>>, <<S_end>>},
                       thinkingConfig : ThinkingConfigs],
   systemInstruction : {NoInstruction, <<[text |-> T_hi]>>}]

InitFromGoogleAI ==
  /\ InitStore
  /\ checkKeys
  /\ call \in [fn : {"transformGoogleAIToOpenAI"}, done : {FALSE},
               arg : GoogleBodies, result : {<<>>}]
  /\ InitCatalogue
  /\ policy = DefaultPolicy
  /\ req = NoReq

FromGoogleAI ==
  /\ call.fn = "transformGoogleAIToOpenAI" /\ ~call.done
  /\ call' = [call EXCEPT !.done = TRUE,
                          !.result = <<TransformGoogleAIToOpenAI(call.arg)>>]
  /\ UNCHANGED <<storeVars, catalogueVars, policy, req>>

NextFromGoogleAI == FromGoogleAI

SpecFromGoogleAI == InitFromGoogleAI /\ [][NextFromGoogleAI]_vars

FromGoogleAIDone == call.fn = "transformGoogleAIToOpenAI" /\ call.done

\* C27: the reasoning of the request transformGoogleAIToOpenAI returns is
\* {max_tokens: n} when includeThoughts is true and thinkingBudget is the
\* number n; it is undefined (no cap, no exclude) when includeThoughts is true
\* and the budget is "auto" or missing; it is {exclude: true} when
\* includeThoughts is missing or false, or there is no thinking configuration.
C27_ReasoningFromThinkingConfig ==
  FromGoogleAIDone =>
    LET tc == call.arg.generationConfig.thinkingConfig
        reasoning == call.result[1].reasoning
        included == tc.present /\ "includeThoughts" \in tc.fields
                    /\ tc.includeThoughts
        numeric == "thinkingBudget" \in tc.fields /\ ~tc.auto
    IN /\ included /\ numeric =>
            /\ reasoning.fields = {"max_tokens"}
            /\ reasoning.max_tokens = tc.thinkingBudget
       /\ included /\ ~numeric => reasoning.fields = {}
       /\ ~included => reasoning.fields = {"exclude"} /\ reasoning.exclude

\* thoughts are included and the budget is "auto": no reasoning is sent
C27_Witness ==
  /\ FromGoogleAIDone
  /\ call.arg.generationConfig.thinkingConfig.includeThoughts
  /\ call.arg.generationConfig.thinkingConfig.auto
  /\ call.result[1].reasoning = NoReasoning


---------------------------------------------------------------------------
(* The family of a model id: the catalogue's and the usage accounting's *)

MaxRules == 2

M_viaOpenai == <<"v", "i", "a", "/", "o", "p", "e", "n", "a", "i", "/", "g", "p", "t", "-", "4", "o">>

\* the rules a table is made of: plain prefixes, an anchored pattern, a word
RulePool ==
  {[pattern |-> <<"o", "p", "e", "n", "a", "i", "/">>, family |-> "OpRout_OpenAI"],
   [pattern |-> <<"a", "n", "t", "h", "r", "o", "p", "i", "c", "/">>, family |-> "OpRout_Anthropic"],
   [pattern |-> <<"^", "o", "p", "e", "n", "a", "i", "/">>, family |-> "OpRout_OpenAI"],
   [pattern |-> <<"g", "p", "t">>, family |-> "OpRout_GPT"]}

\* the ordered tables of at most MaxRules rules, no key twice
RuleTables ==
  UNION {{t \in [1..n -> RulePool] :
            \A i, j \in 1..n : i # j => t[i].pattern # t[j].pattern} :
         n \in 0..MaxRules}

FamilyIds == {M_gpt4o, M_gpt4oMini, M_claude, M_llamaFree, M_viaOpenai, M_noSlash, <<>>}

InitFamily ==
  /\ InitStore
  /\ checkKeys
  /\ call \in [fn : {"family"}, done : {FALSE},
               arg : [rules : RuleTables, id : FamilyIds], result : {<<>>}]
  /\ InitCatalogue
  /\ policy = DefaultPolicy
  /\ req = NoReq

\* generateWhitelist categorizes the model and incrementUsage accounts for it
AssignFamilies ==
  /\ call.fn = "family" /\ ~call.done
  /\ call' = [call EXCEPT
       !.done = TRUE,
       !.result = <<[catalogue |-> CategoryOf(call.arg.rules, call.arg.id),
                     usage |-> FamilyOf(call.arg.rules, call.arg.id)]>>]
  /\ UNCHANGED <<storeVars, catalogueVars, policy, req>>

NextFamily == AssignFamilies

SpecFamily == InitFamily /\ [][NextFamily]_vars

\* C28: for every model id and every ordered table of (pattern, family)
\* rules, the family generateWhitelist files the id under is the family
\* getOpenRouterModelFamily gives incrementUsage for the same id.
C28_SameFamily ==
  call.fn = "family" /\ call.done =>
    call.result[1].catalogue = call.result[1].usage


---------------------------------------------------------------------------
(* Totality of resolveModel *)

\* C29: for every input, the empty string too, and every catalogue, an empty
\* one and one with a model id without "/" too, resolveModel does not throw
\* and returns either a model or one of the error kinds, never both.
C29_ResolveIsTotal ==
  ResolveDone =>
    /\ ~call.result.threw
    /\ \/ call.result.error = "" /\ call.result.model # NoModelData
       \/ /\ call.result.error \in {"not_found", "ambiguous", "prohibit_paid",
                                     "prohibit_moderated"}
          /\ call.result.model = NoModelData

=============================================================================
